---- MODULE Spec2Model ----
(***************************************************************************)
(* usbdrive: a disk image is exposed as USB mass storage by writing kernel *)
(* gadget control files.  The kernel's virtual files are the only state;   *)
(* three backends (ConfigFS, UDC, Sysfs) run multi-step procedures on      *)
(* them, and the mount/unmount/status commands select a backend and call   *)
(* it.  File contents are sequences of one-character (or one-word) tokens, *)
(* so that writeFile's trailing newline and readFile's TrimSpace are       *)
(* computed, not assumed.                                                  *)
(***************************************************************************)
EXTENDS Integers, Sequences, FiniteSets, TLC

VARIABLES fs, dirs, inv, chain, focus

vars == <<fs, dirs, inv, chain, focus>>

(***************************************************************************)
(* Bounds of the model.                                                    *)
(***************************************************************************)
\* longest image path, in tokens
MaxLen == 2

\* tokens an image path is made of: a letter and a blank
PathChars == {"a", " "}

Paths == UNION {[1..k -> PathChars] : k \in 0..MaxLen}

\* the processes that may run a command
Procs == {1}

\* longest path handed to validateImage, in tokens, and the longest chain of
\* symbolic links it is followed through
MaxTokens == 4

MaxLinks == 1

\* most entries of a mount table
MaxMounts == 2

\* most symbolic-link hops a path lookup follows before it gives up, and the
\* deepest recursion the stack holds
MaxHops == 3

StackLimit == 4

(***************************************************************************)
(* Path/IO primitives.                                                     *)
(***************************************************************************)
\* the white space strings.TrimSpace removes
WS == {" ", "\n"}

RECURSIVE TrimLeft(_)
TrimLeft(s) == IF s = <<>> THEN s
               ELSE IF Head(s) \in WS THEN TrimLeft(Tail(s)) ELSE s

RECURSIVE TrimRight(_)
TrimRight(s) == IF s = <<>> THEN s
                ELSE IF s[Len(s)] \in WS THEN TrimRight(SubSeq(s, 1, Len(s) - 1))
                ELSE s

TrimSpace(s) == TrimRight(TrimLeft(s))

\* a control file that does not exist
NoFile == <<"#absent">>

\* the bytes writeFile hands to os.WriteFile: the content and one newline
writeFileBytes(content) == content \o <<"\n">>

\* readFile: [err, val]; a missing file or a failed read is an error
readFile(k, readOk) ==
    IF fs[k] = NoFile \/ ~readOk THEN [err |-> TRUE, val |-> <<>>]
    ELSE [err |-> FALSE, val |-> TrimSpace(fs[k])]

fileExists(k) == fs[k] # NoFile

dirExists(d) == d \in dirs

pathExists(d) == d \in dirs

(***************************************************************************)
(* The kernel's control files.                                             *)
(***************************************************************************)
Gadgets == <<"g1", "g2">>

Ctrls == <<"c1", "c2">>

UDCFile(g) == <<g, "UDC">>

LunAttr(g, a) == <<g, "lun.0", a>>

sysfsEnable == <<"android0", "enable">>

sysfsFile == <<"android0", "f_mass_storage/lun/file">>

sysfsFeatures == <<"android0", "functions">>

UdcLunFile(c) == <<c, "device/gadget/lun0/file">>

SoftConnectFile(c) == <<c, "soft_connect">>

GadgetDir == <<"configfs", "usb_gadget">>

\* the config directories a gadget may have, in directory order
Configs == <<"c.1", "c.2">>

ConfigRoot(g, c) == <<g, "configs", c>>

\* the link of the mass storage function in a config directory
LinkIn(configRoot) == Append(configRoot, "mass_storage.0")

ConfigDir(g) == ConfigRoot(g, "c.1")

FunctionDir(g) == <<g, "functions/mass_storage.0">>

ConfigLink(g) == LinkIn(ConfigDir(g))

GadgetSet == {Gadgets[i] : i \in 1..Len(Gadgets)}

CtrlSet == {Ctrls[i] : i \in 1..Len(Ctrls)}

LunFiles == {LunAttr(g, "file") : g \in GadgetSet} \cup {sysfsFile}
              \cup {UdcLunFile(c) : c \in CtrlSet}

Files == {UDCFile(g) : g \in GadgetSet}
           \cup {LunAttr(g, a) : g \in GadgetSet, a \in {"file", "cdrom", "ro"}}
           \cup {sysfsEnable, sysfsFile, sysfsFeatures}
           \cup {UdcLunFile(c) : c \in CtrlSet}
           \cup {SoftConnectFile(c) : c \in CtrlSet}

(***************************************************************************)
(* What a write to a kernel attribute can do: take effect, fail with an    *)
(* error, or (LUN files, which verifyMount exists to catch) report success *)
(* while the kernel keeps the old value.                                   *)
(***************************************************************************)
\* where every read and write of an existing file succeeds
FaultFree == {"cli", "configfs/pair"}

WriteOutcomes(k) ==
    IF fs[k] = NoFile THEN {"err"}
    ELSE IF focus \in FaultFree THEN {"ok"}
    ELSE IF k \in LunFiles THEN {"ok", "err", "silent"}
    ELSE {"ok", "err"}

\* writeFile(path, content) with the given outcome
writeFile(k, content, o) ==
    IF o = "ok" THEN [fs EXCEPT ![k] = writeFileBytes(content)] ELSE fs

ReadOutcomes == IF focus \in FaultFree THEN {TRUE} ELSE BOOLEAN

(***************************************************************************)
(* Backend values.                                                         *)
(***************************************************************************)
Opts == [ReadWrite : BOOLEAN, CDROM : BOOLEAN]

NotMounted == [Mounted |-> FALSE, File |-> <<>>, ReadOnly |-> FALSE, CDROM |-> FALSE]

NoCli == [src |-> "api", ro |-> FALSE, rw |-> FALSE, cdrom |-> FALSE,
          mode |-> "", force |-> "", dry |-> FALSE]

\* selectBackend was not called
NoSel == [reached |-> FALSE, be |-> "none", err |-> "", name |-> ""]

\* no image file was looked at
NoImage == [kind |-> "none", links |-> <<>>]

Idle == [pc |-> "idle", op |-> "none", be |-> "none", path |-> <<>>,
         opts |-> [ReadWrite |-> FALSE, CDROM |-> FALSE],
         tgt |-> "none", cfg |-> <<>>, udc |-> <<>>, err |-> "", faults |-> FALSE,
         rfail |-> FALSE, udc0 |-> <<>>, status |-> NotMounted, cli |-> NoCli,
         req |-> [ReadWrite |-> FALSE, CDROM |-> FALSE], sel |-> NoSel, called |-> FALSE,
         img |-> NoImage, soft |-> <<>>, accept |-> {},
         mtab |-> [fsType |-> "", table |-> <<>>],
         vs |-> [cur |-> <<>>, depth |-> 0, sl |-> <<>>]]

NoChain == [n |-> 0, be |-> "none", tgt |-> "none", rok |-> TRUE]

(***************************************************************************)
(* Bookkeeping of a call: inv[p] is the frame of the call process p runs.  *)
(* faults records that some read or write of the call did not succeed,     *)
(* rfail that the restoration write of the call failed.  chain counts the  *)
(* calls made after a successful Mount: 1 after the Mount, 2 after one     *)
(* Unmount in which every read and write succeeded, 3 after two.           *)
(***************************************************************************)
L(p) == inv[p]

Free(p) == inv[p].pc \in {"idle", "done"}

NextChain(f, err) ==
    IF f.op = "status" THEN chain
    ELSE IF f.op = "mount"
         THEN IF err = "" /\ f.be # "none"
              THEN [n |-> 1, be |-> f.be, tgt |-> f.tgt, rok |-> ~f.rfail]
              ELSE NoChain
    ELSE IF chain.n >= 1 /\ chain.be = f.be /\ ~f.faults
         THEN [chain EXCEPT !.n = IF chain.n = 1 THEN 2 ELSE 3]
         ELSE NoChain

\* the call of frame f returns err ("" is nil); the arguments of a call that
\* failed are not kept
Return(p, f, err) ==
    /\ inv' = [inv EXCEPT ![p] =
                 [f EXCEPT !.pc = "done", !.err = err,
                           !.path = IF err = "" THEN f.path ELSE Idle.path,
                           !.opts = IF err = "" THEN f.opts ELSE Idle.opts]]
    /\ chain' = NextChain(f, err)

\* the call of frame f goes on at pc
Goto(p, f, pc) ==
    /\ inv' = [inv EXCEPT ![p] = [f EXCEPT !.pc = pc]]
    /\ chain' = chain

Faulted(f, bad) == [f EXCEPT !.faults = f.faults \/ bad]

(***************************************************************************)
(* ConfigFS backend.                                                       *)
(***************************************************************************)
ConfigFSSupported == dirExists(GadgetDir)

RECURSIVE FirstActiveGadget(_)
FirstActiveGadget(i) ==
    IF i > Len(Gadgets) THEN "none"
    ELSE IF readFile(UDCFile(Gadgets[i]), TRUE).val # <<>> THEN Gadgets[i]
    ELSE FirstActiveGadget(i + 1)

\* the first gadget, in directory order, whose UDC attribute is not empty
findGadgetRoot ==
    IF ~dirExists(GadgetDir) THEN [err |-> TRUE, root |-> "none"]
    ELSE [err |-> FirstActiveGadget(1) = "none", root |-> FirstActiveGadget(1)]

RECURSIVE FirstConfig(_, _)
FirstConfig(g, i) ==
    IF i > Len(Configs) THEN <<>>
    ELSE IF dirExists(ConfigRoot(g, Configs[i])) THEN ConfigRoot(g, Configs[i])
    ELSE FirstConfig(g, i + 1)

\* the first config directory of the gadget, in directory order
findConfigRoot(g) == [err |-> FirstConfig(g, 1) = <<>>, root |-> FirstConfig(g, 1)]

\* Mount, lines 25-34: resolve the gadget and its config
CfgMountFind(p) ==
    /\ L(p).pc = "cm_find"
    /\ UNCHANGED <<fs, dirs, focus>>
    /\ IF findGadgetRoot.err THEN Return(p, L(p), "find gadget")
       ELSE IF findConfigRoot(findGadgetRoot.root).err
            THEN Return(p, [L(p) EXCEPT !.tgt = findGadgetRoot.root], "find config")
       ELSE Goto(p, [L(p) EXCEPT !.tgt = findGadgetRoot.root,
                                 !.cfg = findConfigRoot(findGadgetRoot.root).root],
                 "cm_getudc")

\* Mount, lines 36-40, and Unmount, lines 125-128: capture the UDC binding
CfgGetUDC(p) ==
    /\ L(p).pc \in {"cm_getudc", "cu_getudc"}
    /\ UNCHANGED <<fs, dirs, focus>>
    /\ \E ok \in ReadOutcomes :
         LET r == readFile(UDCFile(L(p).tgt), ok) IN
         IF r.err THEN Return(p, Faulted(L(p), TRUE), "get UDC")
         ELSE Goto(p, [L(p) EXCEPT !.udc = r.val],
                   IF L(p).pc = "cm_getudc" THEN "cm_disable" ELSE "cu_disable")

\* mutant: the procedure goes on without detaching the gadget
CfgDisableSkipped(p) ==
    /\ L(p).pc \in {"cm_disable", "cu_disable"}
    /\ UNCHANGED <<fs, dirs, focus>>
    /\ Goto(p, L(p), IF L(p).pc = "cm_disable" THEN "cm_mkfunc" ELSE "cu_clear")

\* mutant: the restoration is registered before the disable write, so that it
\* runs when that write fails
CfgDisableFailRestores(p) ==
    /\ L(p).pc \in {"cm_disable", "cu_disable"}
    /\ UNCHANGED <<dirs, focus>>
    /\ \E o \in WriteOutcomes(UDCFile(L(p).tgt)) :
         /\ fs' = writeFile(UDCFile(L(p).tgt), <<>>, o)
         /\ IF o # "ok" THEN Goto(p, [L(p) EXCEPT !.err = "disable UDC", !.faults = TRUE],
                                  "c_restore")
            ELSE Goto(p, L(p), IF L(p).pc = "cm_disable" THEN "cm_mkfunc" ELSE "cu_clear")

\* Mount, lines 42-46, and Unmount, lines 130-134: detach the gadget; the
\* restoration is registered only after this write succeeded
CfgDisable(p) ==
    /\ L(p).pc \in {"cm_disable", "cu_disable"}
    /\ UNCHANGED <<dirs, focus>>
    /\ \E o \in WriteOutcomes(UDCFile(L(p).tgt)) :
         /\ fs' = writeFile(UDCFile(L(p).tgt), <<>>, o)
         /\ IF o # "ok" THEN Return(p, Faulted(L(p), TRUE), "disable UDC")
            ELSE Goto(p, L(p), IF L(p).pc = "cm_disable" THEN "cm_mkfunc" ELSE "cu_clear")

\* mutant: a failed step is noted and the procedure goes on to the path write
FailContinues(p, f, err) == Goto(p, [f EXCEPT !.err = err, !.faults = TRUE], "cm_path")

\* a step after the restoration was registered fails: the deferred restore runs
Fail(p, f, err) == Goto(p, [f EXCEPT !.err = err, !.faults = TRUE], "c_restore")

\* Mount, lines 60-66: create the mass storage function if needed
CfgMkFunc(p) ==
    /\ L(p).pc = "cm_mkfunc"
    /\ UNCHANGED focus
    /\ IF dirExists(FunctionDir(L(p).tgt))
       THEN UNCHANGED <<fs, dirs>> /\ Goto(p, L(p), "cm_link")
       ELSE \E ok \in ReadOutcomes :
              IF ok
              THEN /\ dirs' = dirs \cup {FunctionDir(L(p).tgt)}
                   /\ fs' = [k \in Files |->
                               IF k = LunAttr(L(p).tgt, "file") THEN <<"\n">>
                               ELSE IF k \in {LunAttr(L(p).tgt, "cdrom"), LunAttr(L(p).tgt, "ro")}
                                    THEN <<"0", "\n">>
                               ELSE fs[k]]
                   /\ Goto(p, L(p), "cm_link")
              ELSE UNCHANGED <<fs, dirs>> /\ Fail(p, L(p), "create mass_storage function")

\* Mount, lines 68-75: link the function into the config if needed
CfgLink(p) ==
    /\ L(p).pc = "cm_link"
    /\ UNCHANGED <<fs, focus>>
    /\ IF pathExists(LinkIn(L(p).cfg))
       THEN UNCHANGED dirs /\ Goto(p, L(p), "cm_clear")
       ELSE \E ok \in ReadOutcomes :
              IF ok
              THEN dirs' = dirs \cup {LinkIn(L(p).cfg)} /\ Goto(p, L(p), "cm_clear")
              ELSE UNCHANGED dirs /\ Fail(p, L(p), "link mass_storage to config")

\* one write of Mount or Unmount to a LUN attribute, then on to pc next
CfgWrite(p, at, k, content, err, next) ==
    /\ L(p).pc = at
    /\ UNCHANGED <<dirs, focus>>
    /\ \E o \in WriteOutcomes(k) :
         /\ fs' = writeFile(k, content, o)
         /\ IF o = "err" THEN Fail(p, L(p), err)
            ELSE Goto(p, Faulted(L(p), o # "ok"), next)

cdromValue(opts) == IF opts.CDROM THEN <<"1">> ELSE <<"0">>

\* mutant: the read-only flag is not inverted from opts.ReadWrite
roValueNotInverted(opts) == IF opts.ReadWrite THEN <<"1">> ELSE <<"0">>

roValue(opts) == IF opts.ReadWrite THEN <<"0">> ELSE <<"1">>

\* mutant: the image path is written right after the clear, before the flags
CfgMountClearThenPath(p) ==
    CfgWrite(p, "cm_clear", LunAttr(L(p).tgt, "file"), <<>>, "clear lun file", "cm_path")

\* Mount, lines 77-81
CfgMountClear(p) ==
    CfgWrite(p, "cm_clear", LunAttr(L(p).tgt, "file"), <<>>, "clear lun file", "cm_cdrom")

\* Mount, lines 83-91
CfgMountCdrom(p) ==
    CfgWrite(p, "cm_cdrom", LunAttr(L(p).tgt, "cdrom"), cdromValue(L(p).opts),
             "set cdrom flag", "cm_ro")

\* Mount, lines 93-101
CfgMountRo(p) ==
    CfgWrite(p, "cm_ro", LunAttr(L(p).tgt, "ro"), roValue(L(p).opts), "set ro flag", "cm_path")

\* Mount, lines 103-107
CfgMountPath(p) ==
    CfgWrite(p, "cm_path", LunAttr(L(p).tgt, "file"), L(p).path, "mount image", "cm_verify")

\* verifyMount: the trimmed LUN file content must equal the expected path
verifyMount(k, expectedPath, readOk) ==
    LET r == readFile(k, readOk) IN r.err \/ r.val # expectedPath

\* mutant: verifyUnmount tests the content the wrong way round
verifyUnmountInverted(k, readOk) ==
    LET r == readFile(k, readOk) IN r.err \/ r.val = <<>>

\* verifyUnmount: the trimmed LUN file content must be empty
verifyUnmount(k, readOk) ==
    LET r == readFile(k, readOk) IN r.err \/ r.val # <<>>

\* Mount, lines 109-116
CfgMountVerify(p) ==
    /\ L(p).pc = "cm_verify"
    /\ UNCHANGED <<fs, dirs, focus>>
    /\ \E ok \in ReadOutcomes :
         IF verifyMount(LunAttr(L(p).tgt, "file"), L(p).path, ok)
         THEN Goto(p, [L(p) EXCEPT !.err = "verify mount", !.faults = @ \/ ~ok], "c_restore")
         ELSE Goto(p, L(p), "c_restore")

\* Unmount, lines 119-123
CfgUnmountFind(p) ==
    /\ L(p).pc = "cu_find"
    /\ UNCHANGED <<fs, dirs, focus>>
    /\ IF findGadgetRoot.err THEN Return(p, L(p), "find gadget")
       ELSE Goto(p, [L(p) EXCEPT !.tgt = findGadgetRoot.root], "cu_getudc")

\* Unmount, lines 147-151
CfgUnmountClear(p) ==
    CfgWrite(p, "cu_clear", LunAttr(L(p).tgt, "file"), <<>>, "clear lun file", "cu_verify")

\* Unmount, lines 153-160
CfgUnmountVerify(p) ==
    /\ L(p).pc = "cu_verify"
    /\ UNCHANGED <<fs, dirs, focus>>
    /\ \E ok \in ReadOutcomes :
         IF verifyUnmount(LunAttr(L(p).tgt, "file"), ok)
         THEN Goto(p, [L(p) EXCEPT !.err = "verify unmount", !.faults = @ \/ ~ok], "c_restore")
         ELSE Goto(p, L(p), "c_restore")

\* mutant: the deferred function tests the captured binding the wrong way round
restoreWritesInverted(udc) == udc = <<>>

\* whether the deferred function writes the captured binding back
restoreWrites(udc) == udc # <<>>

\* mutant: a failed restoration write becomes the error of the call
CfgRestoreReturnsItsError(p) ==
    /\ L(p).pc = "c_restore"
    /\ UNCHANGED <<dirs, focus>>
    /\ IF restoreWrites(L(p).udc)
       THEN \E o \in WriteOutcomes(UDCFile(L(p).tgt)) :
              /\ fs' = writeFile(UDCFile(L(p).tgt), L(p).udc, o)
              /\ Return(p, [L(p) EXCEPT !.rfail = (o # "ok"), !.faults = @ \/ (o # "ok")],
                        IF o = "err" THEN "restore UDC" ELSE L(p).err)
       ELSE fs' = fs /\ Return(p, L(p), L(p).err)

\* Mount, lines 48-54, and Unmount, lines 136-142: the deferred restore; its
\* write error is dropped and the call returns the error of the inner step
CfgRestore(p) ==
    /\ L(p).pc = "c_restore"
    /\ UNCHANGED <<dirs, focus>>
    /\ IF restoreWrites(L(p).udc)
       THEN \E o \in WriteOutcomes(UDCFile(L(p).tgt)) :
              /\ fs' = writeFile(UDCFile(L(p).tgt), L(p).udc, o)
              /\ Return(p, [L(p) EXCEPT !.rfail = (o # "ok"), !.faults = @ \/ (o # "ok")],
                        L(p).err)
       ELSE fs' = fs /\ Return(p, L(p), L(p).err)

\* mutant: Status reports mounted whenever the LUN file can be read
ConfigFSStatusIgnoresContent(bad) ==
    IF findGadgetRoot.err THEN NotMounted
    ELSE IF ~dirExists(FunctionDir(findGadgetRoot.root)) THEN NotMounted
    ELSE LET g     == findGadgetRoot.root
             file  == readFile(LunAttr(g, "file"), LunAttr(g, "file") \notin bad)
             cdrom == readFile(LunAttr(g, "cdrom"), LunAttr(g, "cdrom") \notin bad)
             ro    == readFile(LunAttr(g, "ro"), LunAttr(g, "ro") \notin bad)
         IN IF file.err THEN NotMounted
            ELSE [Mounted |-> TRUE, File |-> file.val,
                  ReadOnly |-> (ro.val = <<"1">>), CDROM |-> (cdrom.val = <<"1">>)]

\* Status, lines 163-191; bad is the set of files whose read fails
ConfigFSStatus(bad) ==
    IF findGadgetRoot.err THEN NotMounted
    ELSE IF ~dirExists(FunctionDir(findGadgetRoot.root)) THEN NotMounted
    ELSE LET g     == findGadgetRoot.root
             file  == readFile(LunAttr(g, "file"), LunAttr(g, "file") \notin bad)
             cdrom == readFile(LunAttr(g, "cdrom"), LunAttr(g, "cdrom") \notin bad)
             ro    == readFile(LunAttr(g, "ro"), LunAttr(g, "ro") \notin bad)
         IN IF file.err \/ file.val = <<>> THEN NotMounted
            ELSE [Mounted |-> TRUE, File |-> file.val,
                  ReadOnly |-> (ro.val = <<"1">>), CDROM |-> (cdrom.val = <<"1">>)]

\* mutant: a failed read of the LUN file is returned as an error
ConfigFSStatusErrPropagates(bad) ==
    IF findGadgetRoot.err THEN FALSE
    ELSE IF ~dirExists(FunctionDir(findGadgetRoot.root)) THEN FALSE
    ELSE LET k == LunAttr(findGadgetRoot.root, "file") IN readFile(k, k \notin bad).err

\* Status, lines 163-191: the error returned with the status; every return
\* statement gives nil
ConfigFSStatusErr(bad) ==
    IF findGadgetRoot.err THEN FALSE
    ELSE IF ~dirExists(FunctionDir(findGadgetRoot.root)) THEN FALSE
    ELSE LET k    == LunAttr(findGadgetRoot.root, "file")
             file == readFile(k, k \notin bad)
         IN IF file.err \/ file.val = <<>> THEN FALSE ELSE FALSE

(***************************************************************************)
(* Sysfs backend (legacy Android).                                         *)
(***************************************************************************)
SysfsSupported == fileExists(sysfsEnable)

setEnabledValue(enabled) == IF enabled THEN <<"1">> ELSE <<"0">>

\* mutant: a failed step re-enables the function before it returns
SysWriteRestores(p, at, k, content, err, next) ==
    /\ L(p).pc = at
    /\ UNCHANGED <<dirs, focus>>
    /\ \E o \in WriteOutcomes(k) :
         IF o = "err"
         THEN /\ fs' = writeFile(sysfsEnable, setEnabledValue(TRUE), "ok")
              /\ Return(p, Faulted(L(p), TRUE), err)
         ELSE /\ fs' = writeFile(k, content, o)
              /\ IF next = "done" THEN Return(p, Faulted(L(p), o # "ok"), "")
                 ELSE Goto(p, Faulted(L(p), o # "ok"), next)

\* one write of the Sysfs backend; an error returns at once, nothing is restored
SysWrite(p, at, k, content, err, next) ==
    /\ L(p).pc = at
    /\ UNCHANGED <<dirs, focus>>
    /\ \E o \in WriteOutcomes(k) :
         /\ fs' = writeFile(k, content, o)
         /\ IF o = "err" THEN Return(p, Faulted(L(p), TRUE), err)
            ELSE IF next = "done" THEN Return(p, Faulted(L(p), o # "ok"), "")
            ELSE Goto(p, Faulted(L(p), o # "ok"), next)

\* mutant: Mount goes on to the LUN file without disabling the function
SysMountDisableSkipped(p) ==
    /\ L(p).pc = "sm_disable"
    /\ UNCHANGED <<fs, dirs, focus>>
    /\ Goto(p, L(p), "sm_file")

\* Mount, lines 29-33
SysMountDisable(p) ==
    SysWrite(p, "sm_disable", sysfsEnable, setEnabledValue(FALSE), "disable USB", "sm_file")

\* Mount, lines 35-39
SysMountFile(p) ==
    SysWrite(p, "sm_file", sysfsFile, L(p).path, "set image file", "sm_func")

\* Mount, lines 41-45
SysMountFunc(p) ==
    SysWrite(p, "sm_func", sysfsFeatures, <<"mass_storage">>, "set mass_storage function",
             "sm_enable")

\* Mount, lines 47-53
SysMountEnable(p) ==
    SysWrite(p, "sm_enable", sysfsEnable, setEnabledValue(TRUE), "enable USB", "done")

\* Unmount, lines 57-61
SysUnmountDisable(p) ==
    SysWrite(p, "su_disable", sysfsEnable, setEnabledValue(FALSE), "disable USB", "su_file")

\* Unmount, lines 63-67
SysUnmountFile(p) ==
    SysWrite(p, "su_file", sysfsFile, <<>>, "clear image file", "su_func")

\* Unmount, lines 69-73
SysUnmountFunc(p) ==
    SysWrite(p, "su_func", sysfsFeatures, <<"mtp">>, "reset to MTP", "su_enable")

\* Unmount, lines 75-81
SysUnmountEnable(p) ==
    SysWrite(p, "su_enable", sysfsEnable, setEnabledValue(TRUE), "enable USB", "done")

\* mutant: Status reports the image as writable
SysfsStatusWritable(bad) ==
    LET file == readFile(sysfsFile, sysfsFile \notin bad) IN
    IF file.err \/ file.val = <<>> THEN NotMounted
    ELSE [Mounted |-> TRUE, File |-> file.val, ReadOnly |-> FALSE, CDROM |-> FALSE]

\* Status, lines 84-96
SysfsStatus(bad) ==
    LET file == readFile(sysfsFile, sysfsFile \notin bad) IN
    IF file.err \/ file.val = <<>> THEN NotMounted
    ELSE [Mounted |-> TRUE, File |-> file.val, ReadOnly |-> TRUE, CDROM |-> FALSE]

\* Status, lines 84-96: the error returned with the status
SysfsStatusErr(bad) ==
    LET file == readFile(sysfsFile, sysfsFile \notin bad) IN
    IF file.err \/ file.val = <<>> THEN FALSE ELSE FALSE

(***************************************************************************)
(* UDC backend.                                                            *)
(***************************************************************************)
RECURSIVE FirstLunCtrl(_)
FirstLunCtrl(i) ==
    IF i > Len(Ctrls) THEN "none"
    ELSE IF fileExists(UdcLunFile(Ctrls[i])) THEN Ctrls[i]
    ELSE FirstLunCtrl(i + 1)

\* the first controller, in directory order, that has device/gadget/lun0/file
findLunFile == [err |-> FirstLunCtrl(1) = "none", ctrl |-> FirstLunCtrl(1)]

UDCSupported == FirstLunCtrl(1) # "none"

\* Mount, lines 43-46, and Unmount, lines 75-78
UdcFind(p) ==
    /\ L(p).pc \in {"um_find", "uu_find"}
    /\ UNCHANGED <<fs, dirs, focus>>
    /\ IF findLunFile.err THEN Return(p, L(p), "find lun file")
       ELSE Goto(p, [L(p) EXCEPT !.tgt = findLunFile.ctrl],
                 IF L(p).pc = "um_find" THEN "um_clear" ELSE "uu_clear")

\* one write of the UDC backend; an error returns at once
UdcWrite(p, at, k, content, err, next) ==
    /\ L(p).pc = at
    /\ UNCHANGED <<dirs, focus>>
    /\ \E o \in WriteOutcomes(k) :
         /\ fs' = writeFile(k, content, o)
         /\ IF o = "err" THEN Return(p, Faulted(L(p), TRUE), err)
            ELSE Goto(p, Faulted(L(p), o # "ok"), next)

\* Mount, lines 48-52
UdcMountClear(p) ==
    UdcWrite(p, "um_clear", UdcLunFile(L(p).tgt), <<>>, "clear lun file", "um_path")

\* Mount, lines 54-58
UdcMountPath(p) ==
    UdcWrite(p, "um_path", UdcLunFile(L(p).tgt), L(p).path, "mount image", "um_verify")

\* Mount, lines 60-71
UdcMountVerify(p) ==
    /\ L(p).pc = "um_verify"
    /\ UNCHANGED <<fs, dirs, focus>>
    /\ \E ok \in ReadOutcomes :
         IF verifyMount(UdcLunFile(L(p).tgt), L(p).path, ok)
         THEN Return(p, Faulted(L(p), ~ok), "verify mount")
         ELSE Return(p, L(p), "")

\* Unmount, lines 80-84
UdcUnmountClear(p) ==
    UdcWrite(p, "uu_clear", UdcLunFile(L(p).tgt), <<>>, "clear lun file", "uu_verify")

\* Unmount, lines 86-97
UdcUnmountVerify(p) ==
    /\ L(p).pc = "uu_verify"
    /\ UNCHANGED <<fs, dirs, focus>>
    /\ \E ok \in ReadOutcomes :
         IF verifyUnmount(UdcLunFile(L(p).tgt), ok)
         THEN Return(p, Faulted(L(p), ~ok), "verify unmount")
         ELSE Return(p, L(p), "")

\* Status, lines 100-117
UDCStatus(bad) ==
    IF findLunFile.err THEN NotMounted
    ELSE LET k    == UdcLunFile(findLunFile.ctrl)
             file == readFile(k, k \notin bad)
         IN IF file.err \/ file.val = <<>> THEN NotMounted
            ELSE [Mounted |-> TRUE, File |-> file.val, ReadOnly |-> FALSE, CDROM |-> FALSE]

\* Status, lines 100-117: the error returned with the status
UDCStatusErr(bad) ==
    IF findLunFile.err THEN FALSE
    ELSE LET k    == UdcLunFile(findLunFile.ctrl)
             file == readFile(k, k \notin bad)
         IN IF file.err \/ file.val = <<>> THEN FALSE ELSE FALSE

(***************************************************************************)
(* The Backend interface.                                                  *)
(***************************************************************************)
BackendNames == {"configfs", "udc", "sysfs"}

Supported(b) ==
    CASE b = "configfs" -> ConfigFSSupported
      [] b = "udc"      -> UDCSupported
      [] b = "sysfs"    -> SysfsSupported

Status(b, bad) ==
    CASE b = "configfs" -> ConfigFSStatus(bad)
      [] b = "udc"      -> UDCStatus(bad)
      [] b = "sysfs"    -> SysfsStatus(bad)

StatusErr(b, bad) ==
    CASE b = "configfs" -> ConfigFSStatusErr(bad)
      [] b = "udc"      -> UDCStatusErr(bad)
      [] b = "sysfs"    -> SysfsStatusErr(bad)

\* where Mount and Unmount of each backend start
MountEntry(b) ==
    CASE b = "configfs" -> "cm_find" [] b = "udc" -> "um_find" [] b = "sysfs" -> "sm_disable"

UnmountEntry(b) ==
    CASE b = "configfs" -> "cu_find" [] b = "udc" -> "uu_find" [] b = "sysfs" -> "su_disable"

\* the LUN file a call of backend b on target tgt is about
LunFileOf(b, tgt) ==
    CASE b = "configfs" -> LunAttr(tgt, "file")
      [] b = "udc"      -> UdcLunFile(tgt)
      [] b = "sysfs"    -> sysfsFile

\* the files Status of backend b reads
StatusReads(b) ==
    CASE b = "configfs" -> IF findGadgetRoot.err THEN {}
                           ELSE {LunAttr(findGadgetRoot.root, a) : a \in {"file", "cdrom", "ro"}}
      [] b = "udc"      -> IF findLunFile.err THEN {} ELSE {UdcLunFile(findLunFile.ctrl)}
      [] b = "sysfs"    -> {sysfsFile}

\* the binding of the active gadget when a ConfigFS call starts
BindingAtEntry(b) ==
    IF b = "configfs" /\ ~findGadgetRoot.err
    THEN readFile(UDCFile(findGadgetRoot.root), TRUE).val ELSE <<>>

\* backend.Mount(path, opts) is called
BeginMount(p, b, path, opts, cli) ==
    /\ inv' = [inv EXCEPT ![p] = [Idle EXCEPT !.pc = MountEntry(b), !.op = "mount", !.be = b,
                                              !.path = path, !.opts = opts, !.cli = cli,
                                              !.udc0 = BindingAtEntry(b), !.called = TRUE]]
    /\ UNCHANGED <<fs, dirs, chain, focus>>

\* backend.Unmount() is called
BeginUnmount(p, b, cli) ==
    /\ inv' = [inv EXCEPT ![p] = [Idle EXCEPT !.pc = UnmountEntry(b), !.op = "unmount",
                                              !.be = b, !.cli = cli,
                                              !.udc0 = BindingAtEntry(b), !.called = TRUE]]
    /\ UNCHANGED <<fs, dirs, chain, focus>>

\* mutant: Status creates the mass storage function when it does not exist
DoStatusCreatesFunction(p, b, cli) ==
    /\ \E bad \in (IF focus = "cli" THEN {{}} ELSE SUBSET StatusReads(b)) :
         inv' = [inv EXCEPT ![p] = [Idle EXCEPT !.pc = "done", !.op = "status", !.be = b,
                                                !.status = Status(b, bad),
                                                !.err = IF StatusErr(b, bad) THEN "status"
                                                        ELSE "",
                                                !.faults = (bad # {}), !.cli = cli,
                                                !.called = TRUE]]
    /\ dirs' = dirs \cup {FunctionDir("g1")}
    /\ UNCHANGED <<fs, chain, focus>>

\* backend.Status() is called and returns: it only reads
DoStatus(p, b, cli) ==
    /\ \E bad \in (IF focus = "cli" THEN {{}} ELSE SUBSET StatusReads(b)) :
         inv' = [inv EXCEPT ![p] = [Idle EXCEPT !.pc = "done", !.op = "status", !.be = b,
                                                !.status = Status(b, bad),
                                                !.err = IF StatusErr(b, bad) THEN "status"
                                                        ELSE "",
                                                !.faults = (bad # {}), !.cli = cli,
                                                !.called = TRUE]]
    /\ UNCHANGED <<fs, dirs, chain, focus>>

\* a caller of the Backend interface: the backend under test is focus
CallMount(p) ==
    /\ Free(p) /\ focus \in BackendNames
    /\ \E path \in Paths, opts \in Opts : BeginMount(p, focus, path, opts, NoCli)

CallUnmount(p) ==
    /\ Free(p) /\ focus \in BackendNames
    /\ BeginUnmount(p, focus, NoCli)

CallStatus(p) ==
    /\ Free(p) /\ focus \in BackendNames
    /\ DoStatus(p, focus, NoCli)

BackendStep(p) ==
    \/ CfgMountFind(p) \/ CfgGetUDC(p) \/ CfgDisable(p) \/ CfgMkFunc(p) \/ CfgLink(p)
    \/ CfgMountClear(p) \/ CfgMountCdrom(p) \/ CfgMountRo(p) \/ CfgMountPath(p)
    \/ CfgMountVerify(p) \/ CfgUnmountFind(p) \/ CfgUnmountClear(p) \/ CfgUnmountVerify(p)
    \/ CfgRestore(p)
    \/ SysMountDisable(p) \/ SysMountFile(p) \/ SysMountFunc(p) \/ SysMountEnable(p)
    \/ SysUnmountDisable(p) \/ SysUnmountFile(p) \/ SysUnmountFunc(p) \/ SysUnmountEnable(p)
    \/ UdcFind(p) \/ UdcMountClear(p) \/ UdcMountPath(p) \/ UdcMountVerify(p)
    \/ UdcUnmountClear(p) \/ UdcUnmountVerify(p)

(***************************************************************************)
(* Kernel states a command can start in.                                   *)
(***************************************************************************)
\* the gadget tree: g1 has a config and may have the function and its link;
\* g2 is a bare gadget; each may be bound to a controller or detached
CfgWorlds ==
    {[d |-> {}, u1 |-> NoFile, u2 |-> NoFile]}
    \cup {[d |-> {GadgetDir, ConfigDir("g1")} \cup x, u1 |-> u1, u2 |-> u2] :
            x \in {{}, {FunctionDir("g1")}, {FunctionDir("g1"), ConfigLink("g1")}},
            u1 \in {<<"x", "\n">>, <<"\n">>},
            u2 \in {<<"y", "\n">>, <<"\n">>}}

NoCfgWorld == [d |-> {}, u1 |-> NoFile, u2 |-> NoFile]

KernelFiles(w, sysOn, luns) ==
    [k \in Files |->
        IF k = UDCFile("g1") THEN w.u1
        ELSE IF k = UDCFile("g2") THEN w.u2
        ELSE IF k = LunAttr("g1", "file")
             THEN IF FunctionDir("g1") \in w.d THEN <<"\n">> ELSE NoFile
        ELSE IF k \in {LunAttr("g1", "cdrom"), LunAttr("g1", "ro")}
             THEN IF FunctionDir("g1") \in w.d THEN <<"0", "\n">> ELSE NoFile
        ELSE IF k = sysfsEnable THEN IF sysOn THEN <<"1", "\n">> ELSE NoFile
        ELSE IF k = sysfsFile THEN IF sysOn THEN <<"\n">> ELSE NoFile
        ELSE IF k = sysfsFeatures THEN IF sysOn THEN <<"mtp", "\n">> ELSE NoFile
        ELSE IF k \in {UdcLunFile(c) : c \in luns} THEN <<"\n">>
        ELSE NoFile]

\* a backend under test on a kernel that has only that backend's interface
Init ==
    /\ focus \in BackendNames
    /\ \E w \in CfgWorlds, sysOn \in BOOLEAN, luns \in SUBSET CtrlSet :
         /\ focus # "configfs" => w = NoCfgWorld
         /\ focus # "sysfs" => ~sysOn
         /\ focus # "udc" => luns = {}
         /\ dirs = w.d
         /\ fs = KernelFiles(w, sysOn, luns)
    /\ inv = [p \in Procs |-> Idle]
    /\ chain = NoChain

Next ==
    \E p \in Procs : CallMount(p) \/ CallUnmount(p) \/ CallStatus(p) \/ BackendStep(p)

Spec == Init /\ [][Next]_vars

(***************************************************************************)
(* Properties of the backends.                                             *)
(***************************************************************************)
Done(p, op, b) == L(p).pc = "done" /\ L(p).op = op /\ L(p).be = b

\* the trimmed content of a control file ("" when it does not exist)
Content(k) == readFile(k, TRUE).val

C2_StatusAfterMount ==
    \A p \in Procs :
        (L(p).pc = "done" /\ L(p).op = "mount" /\ L(p).be \in BackendNames /\ L(p).err = ""
           /\ L(p).path # <<>> /\ ~L(p).faults)
        => Status(L(p).be, {}).Mounted /\ Status(L(p).be, {}).File = L(p).path

AttrsHoldOptions(p) ==
    /\ Content(LunAttr(L(p).tgt, "cdrom")) = <<"1">> <=> L(p).opts.CDROM
    /\ Content(LunAttr(L(p).tgt, "ro")) = <<"1">> <=> ~L(p).opts.ReadWrite

StatusHoldsOptions(p) ==
    /\ Status("configfs", {}).CDROM = L(p).opts.CDROM
    /\ Status("configfs", {}).ReadOnly = ~L(p).opts.ReadWrite

BackendsSysfsFirst == <<"configfs", "sysfs", "udc">>

\* the candidates, in the selector's order
Backends == <<"configfs", "udc", "sysfs">>

Selected(b) == [reached |-> TRUE, be |-> b, err |-> "", name |-> ""]

SelectError(err, name) == [reached |-> TRUE, be |-> "none", err |-> err, name |-> name]

RECURSIVE firstSupported(_)
firstSupported(i) ==
    IF i > Len(Backends) THEN SelectError("no supported backend", "")
    ELSE IF Supported(Backends[i]) THEN Selected(Backends[i])
    ELSE firstSupported(i + 1)

\* mutant: an unsupported forced backend falls back to the automatic choice
RECURSIVE findNamedFallback(_, _)
findNamedFallback(force, i) ==
    IF i > Len(Backends) THEN SelectError("unknown backend", force)
    ELSE IF Backends[i] = force
         THEN IF Supported(Backends[i]) THEN Selected(Backends[i]) ELSE firstSupported(1)
    ELSE findNamedFallback(force, i + 1)

RECURSIVE findNamed(_, _)
findNamed(force, i) ==
    IF i > Len(Backends) THEN SelectError("unknown backend", force)
    ELSE IF Backends[i] = force
         THEN IF Supported(Backends[i]) THEN Selected(Backends[i])
              ELSE SelectError("not supported", force)
    ELSE findNamed(force, i + 1)

selectBackend(force) == IF force # "" THEN findNamed(force, 1) ELSE firstSupported(1)

(***************************************************************************)
(* Configuration loading and the mount, unmount and status commands.       *)
(***************************************************************************)
\* names a user may give with -f or in a config file
ForceNames == {"", "configfs", "udc", "sysfs", "legacy", "bogus"}

ModeNames == {"", "ro", "rw", "cdrom", "bogus"}

\* filepath.Abs, the working directory being the root
Abs(path) == IF path # <<>> /\ path[1] = "/" THEN path ELSE <<"/">> \o path

\* files a config names: relative and absolute ones, and none
CfgFiles == {<<>>, <<"a">>, <<"a", " ">>, <<"/", "a">>}

RawConfigs == [parseOk : BOOLEAN, File : CfgFiles, Mode : ModeNames, Backend : ForceNames]

\* the backend names loadConfig lets through
configBackendOk(b) == b \in {"", "configfs", "sysfs", "legacy"}

configModeOk(m) == m \in {"", "ro", "rw", "cdrom"}

loadConfig(raw) ==
    IF ~raw.parseOk \/ raw.File = <<>> \/ ~configModeOk(raw.Mode) \/ ~configBackendOk(raw.Backend)
    THEN [err |-> TRUE, File |-> <<>>, Mode |-> "", Backend |-> ""]
    ELSE [err |-> FALSE, File |-> Abs(raw.File), Mode |-> raw.Mode, Backend |-> raw.Backend]

\* mutant: the options are not checked against each other
optionConflictNever(useCDROM, readWrite) == FALSE

\* mount, line 113
optionConflict(useCDROM, readWrite) == useCDROM /\ readWrite

\* mount, lines 100-107: read-write unless -ro is given
flagReadWrite(mountRO, mountRW) == IF mountRO THEN FALSE ELSE TRUE

\* mutant: every mode is taken as read-write
modeReadWriteAlways(mode) == TRUE

\* mount, lines 83-90
modeReadWrite(mode) == mode \notin {"ro", "cdrom"}

modeCDROM(mode) == mode = "cdrom"

\* mutant: the Sysfs backend is handed the request as it was resolved
sysfsDemoteNever(be, readWrite) == readWrite

\* mount, lines 131-135: read-write is forced to read-only for the Sysfs backend
sysfsDemote(be, readWrite) == IF be = "sysfs" /\ readWrite THEN FALSE ELSE readWrite

\* what a mount command line gives: flags, an argument or a config, and
\* whether validateImage accepts the image (never for the empty path)
MountFlagInputs ==
    {[src |-> "flags", ro |-> ro, rw |-> rw, cdrom |-> cd, force |-> f, dry |-> dry,
      hasArg |-> TRUE, arg |-> a, valid |-> v, raw |-> [parseOk |-> FALSE, File |-> <<>>,
      Mode |-> "", Backend |-> ""]] :
        ro \in BOOLEAN, rw \in BOOLEAN, cd \in BOOLEAN, f \in ForceNames, dry \in BOOLEAN,
        a \in Paths, v \in BOOLEAN}

MountConfigInputs ==
    {[src |-> "config", ro |-> ro, rw |-> rw, cdrom |-> FALSE, force |-> "", dry |-> dry,
      hasArg |-> FALSE, arg |-> <<>>, valid |-> v, raw |-> raw] :
        ro \in BOOLEAN, rw \in BOOLEAN, dry \in BOOLEAN, v \in BOOLEAN, raw \in RawConfigs}

MountInputs ==
    {i \in MountFlagInputs \cup MountConfigInputs :
        i.valid => (IF i.src = "flags" THEN i.arg # <<>> ELSE i.raw.File # <<>>)}
    \cup {[src |-> "flags", ro |-> FALSE, rw |-> FALSE, cdrom |-> FALSE, force |-> "",
           dry |-> FALSE, hasArg |-> FALSE, arg |-> <<>>, valid |-> FALSE,
           raw |-> [parseOk |-> FALSE, File |-> <<>>, Mode |-> "", Backend |-> ""]]}

CliOf(i) ==
    [src |-> i.src, ro |-> i.ro, rw |-> i.rw, cdrom |-> i.cdrom,
     mode |-> IF i.src = "config" THEN i.raw.Mode ELSE "",
     force |-> IF i.src = "config" THEN i.raw.Backend ELSE i.force, dry |-> i.dry]

\* mutant: the gadget g1 is detached before the command returns
RejectDetaches(p, f, err) ==
    /\ inv' = [inv EXCEPT ![p] = [f EXCEPT !.pc = "done", !.err = err]]
    /\ fs' = writeFile(UDCFile("g1"), <<>>, IF fs[UDCFile("g1")] = NoFile THEN "err" ELSE "ok")
    /\ UNCHANGED <<dirs, chain, focus>>

\* the command returns err without having called the backend
Reject(p, f, err) ==
    /\ inv' = [inv EXCEPT ![p] = [f EXCEPT !.pc = "done", !.err = err]]
    /\ UNCHANGED <<fs, dirs, chain, focus>>

\* mount, lines 69-182, up to the call of backend.Mount
MountCmd(p) ==
    /\ L(p).pc = "idle" /\ focus = "cli"
    /\ \E i \in MountInputs :
         LET cfg       == loadConfig(i.raw)
             f0        == [Idle EXCEPT !.op = "mount", !.cli = CliOf(i)]
             imagePath == IF i.src = "config" THEN cfg.File ELSE i.arg
             force     == IF i.src = "config" THEN cfg.Backend ELSE i.force
             readWrite == IF i.src = "config" THEN modeReadWrite(cfg.Mode)
                          ELSE flagReadWrite(i.ro, i.rw)
             useCDROM  == IF i.src = "config" THEN modeCDROM(cfg.Mode) ELSE i.cdrom
             f1        == [f0 EXCEPT !.path = imagePath,
                                     !.req = [ReadWrite |-> readWrite, CDROM |-> useCDROM]]
             sel       == selectBackend(force)
             f2        == [f1 EXCEPT !.sel = sel, !.be = sel.be]
             demoted   == sysfsDemote(sel.be, readWrite)
             opts      == [ReadWrite |-> demoted, CDROM |-> useCDROM]
         IN IF i.src = "config" /\ cfg.err THEN Reject(p, f0, "failed to load config")
            ELSE IF i.src = "flags" /\ ~i.hasArg THEN Reject(p, f0, "missing file argument")
            ELSE IF optionConflict(useCDROM, readWrite) THEN Reject(p, f1, "cdrom with rw")
            ELSE IF i.ro /\ i.rw THEN Reject(p, f1, "ro with rw")
            ELSE IF ~i.valid THEN Reject(p, f1, "invalid image file")
            ELSE IF sel.err # "" THEN Reject(p, f2, sel.err)
            ELSE IF i.dry THEN Reject(p, [f2 EXCEPT !.opts = opts], "")
            ELSE /\ inv' = [inv EXCEPT ![p] =
                              [f2 EXCEPT !.pc = MountEntry(sel.be), !.opts = opts,
                                         !.udc0 = BindingAtEntry(sel.be), !.called = TRUE]]
                 /\ UNCHANGED <<fs, dirs, chain, focus>>

\* mutant: unmount calls the backend whether or not -n was given
UnmountCmdIgnoresDryRun(p) ==
    /\ Free(p) /\ focus = "cli"
    /\ \E force \in ForceNames, dry \in BOOLEAN :
         LET sel == selectBackend(force)
             f0  == [Idle EXCEPT !.op = "unmount", !.sel = sel, !.be = sel.be,
                                 !.cli = [NoCli EXCEPT !.src = "flags", !.force = force,
                                                       !.dry = dry]]
         IN IF sel.err # "" THEN Reject(p, f0, sel.err)
            ELSE /\ inv' = [inv EXCEPT ![p] =
                              [f0 EXCEPT !.pc = UnmountEntry(sel.be),
                                         !.udc0 = BindingAtEntry(sel.be), !.called = TRUE]]
                 /\ UNCHANGED <<fs, dirs, chain, focus>>

\* unmount, lines 200-228, up to the call of backend.Unmount
UnmountCmd(p) ==
    /\ Free(p) /\ focus = "cli"
    /\ \E force \in ForceNames, dry \in BOOLEAN :
         LET sel == selectBackend(force)
             f0  == [Idle EXCEPT !.op = "unmount", !.sel = sel, !.be = sel.be,
                                 !.cli = [NoCli EXCEPT !.src = "flags", !.force = force,
                                                       !.dry = dry]]
         IN IF sel.err # "" THEN Reject(p, f0, sel.err)
            ELSE IF dry THEN Reject(p, [f0 EXCEPT !.status = Status(sel.be, {})], "")
            ELSE /\ inv' = [inv EXCEPT ![p] =
                              [f0 EXCEPT !.pc = UnmountEntry(sel.be),
                                         !.udc0 = BindingAtEntry(sel.be), !.called = TRUE]]
                 /\ UNCHANGED <<fs, dirs, chain, focus>>

\* the backends the status command asks, in its order
StatusBackends == <<"configfs", "sysfs">>

RECURSIVE statusReport(_)
statusReport(i) ==
    IF i > Len(StatusBackends) THEN [be |-> "none", status |-> NotMounted]
    ELSE IF Supported(StatusBackends[i]) /\ ~StatusErr(StatusBackends[i], {})
         THEN [be |-> StatusBackends[i], status |-> Status(StatusBackends[i], {})]
    ELSE statusReport(i + 1)

\* status, lines 237-264
StatusCmd(p) ==
    /\ Free(p) /\ focus = "cli"
    /\ Reject(p, [Idle EXCEPT !.op = "status", !.be = statusReport(1).be,
                              !.status = statusReport(1).status,
                              !.cli = [NoCli EXCEPT !.src = "flags"]], "")

\* the commands run on a kernel whose reads and writes succeed; each
\* interface is present or not, ConfigFS with or without an active gadget
CliWorlds ==
    {NoCfgWorld}
    \cup {[d |-> {GadgetDir, ConfigDir("g1")} \cup x, u1 |-> u1, u2 |-> NoFile] :
            x \in {{}, {FunctionDir("g1"), ConfigLink("g1")}},
            u1 \in {<<"x", "\n">>, <<"\n">>}}

InitCli ==
    /\ focus = "cli"
    /\ \E w \in CliWorlds, sysOn \in BOOLEAN, luns \in {{}, {"c1"}, {"c2"}} :
         /\ dirs = w.d
         /\ fs = KernelFiles(w, sysOn, luns)
    /\ inv = [p \in Procs |-> Idle]
    /\ chain = NoChain

NextCli ==
    \E p \in Procs : MountCmd(p) \/ UnmountCmd(p) \/ StatusCmd(p) \/ BackendStep(p)

SpecCli == InitCli /\ [][NextCli]_vars

(***************************************************************************)
(* Image validation.  A path is a sequence of tokens: "/" and pieces of    *)
(* names, so that "/system" is "/" "sys" "tem" and "/sysx" is "/" "sys"    *)
(* "x"; strings.HasPrefix is the prefix test on these sequences.           *)
(***************************************************************************)
NameTokens == {"sys", "tem", "data", "x"}

ImageTokens == NameTokens \cup {"/"}

\* no empty component and no trailing separator
IsClean(s) ==
    /\ \A i \in 1..(Len(s) - 1) : ~(s[i] = "/" /\ s[i + 1] = "/")
    /\ Len(s) > 1 => s[Len(s)] # "/"

ImagePaths ==
    {s \in UNION {[1..k -> ImageTokens] : k \in 1..MaxTokens} : IsClean(s)}

\* what os.Readlink may return for a path on the way
LinkTargets == {<<"/", "x">>, <<"/", "sys", "x">>, <<"sys">>}

LinkChains == UNION {[1..k -> LinkTargets] : k \in 0..MaxLinks}

\* what os.Stat and os.Open find at the path
ImageKinds == {"missing", "noaccess", "dir", "empty", "unreadable", "file"}

Images == [kind : ImageKinds, links : LinkChains]

dangerousPaths ==
    << <<"/", "sys", "tem">>, <<"/", "sys">>, <<"/", "proc">>, <<"/", "dev">>,
       <<"/", "etc">>, <<"/", "bin">>, <<"/", "sbin">>, <<"/", "boot">>,
       <<"/", "root">>, <<"/", "data", "/", "sys", "tem">>, <<"/", "data", "/", "data">> >>

HasPrefix(s, prefix) == Len(prefix) <= Len(s) /\ SubSeq(s, 1, Len(prefix)) = prefix

IsAbs(path) == path # <<>> /\ path[1] = "/"

\* filepath.Dir of a clean absolute path
Dir(path) ==
    LET last == CHOOSE i \in 1..Len(path) :
                    path[i] = "/" /\ \A j \in (i + 1)..Len(path) : path[j] # "/"
    IN IF last = 1 THEN <<"/">> ELSE SubSeq(path, 1, last - 1)

\* filepath.Join of a clean absolute directory and a clean relative path
Join(dir, rel) == IF dir = <<"/">> THEN dir \o rel ELSE dir \o <<"/">> \o rel

\* validateSafePath: "" or the error; links is what Readlink returns for the
\* path and then for each target in turn
RECURSIVE validateSafePath(_, _)
validateSafePath(path, links) ==
    IF \E i \in 1..Len(dangerousPaths) : HasPrefix(path, dangerousPaths[i])
    THEN "system directory"
    ELSE IF links = <<>> THEN ""
    ELSE IF IsAbs(Head(links)) THEN validateSafePath(Head(links), Tail(links))
    ELSE validateSafePath(Join(Dir(path), Head(links)), Tail(links))

validateImage(path, img) ==
    LET absPath == Abs(path) IN
    IF validateSafePath(absPath, img.links) # "" THEN validateSafePath(absPath, img.links)
    ELSE IF img.kind = "missing" THEN "file does not exist"
    ELSE IF img.kind = "noaccess" THEN "cannot access file"
    ELSE IF img.kind = "dir" THEN "path is a directory"
    ELSE IF img.kind = "empty" THEN "file is empty"
    ELSE IF img.kind = "unreadable" THEN "file not readable"
    ELSE ""

\* validateImage(path) is called on an image and returns
ValidateImage(p) ==
    /\ L(p).pc = "v_call" /\ focus = "image"
    /\ inv' = [inv EXCEPT ![p] = [L(p) EXCEPT !.pc = "done",
                                              !.err = validateImage(L(p).path, L(p).img)]]
    /\ UNCHANGED <<fs, dirs, chain, focus>>

InitImage ==
    /\ focus = "image"
    /\ fs = [k \in Files |-> NoFile]
    /\ dirs = {}
    /\ chain = NoChain
    /\ \E path \in ImagePaths, img \in Images :
         inv = [p \in Procs |-> [Idle EXCEPT !.pc = "v_call", !.op = "validate",
                                             !.path = path, !.img = img]]

NextImage == \E p \in Procs : ValidateImage(p)

SpecImage == InitImage /\ [][NextImage]_vars

(***************************************************************************)
(* ConfigFS Mount on gadgets with one or two config directories.           *)
(***************************************************************************)
\* the config directories of g1 that exist, whether the mass storage function
\* exists, and the configs it is linked into
ConfigWorlds ==
    {[configs |-> cs, func |-> fn, links |-> ls] :
        cs \in (SUBSET {"c.1", "c.2"}) \ {{}}, fn \in BOOLEAN, ls \in SUBSET {"c.1", "c.2"}}

ConfigWorldDirs(w) ==
    {GadgetDir} \cup {ConfigRoot("g1", c) : c \in w.configs}
       \cup (IF w.func THEN {FunctionDir("g1")} ELSE {})
       \cup {LinkIn(ConfigRoot("g1", c)) : c \in w.links}

\* g1 is bound to a controller; a link needs its config and the function
InitConfigs ==
    /\ focus = "configfs"
    /\ \E w \in ConfigWorlds :
         /\ w.links \subseteq w.configs
         /\ w.links # {} => w.func
         /\ dirs = ConfigWorldDirs(w)
         /\ fs = KernelFiles([d |-> dirs, u1 |-> <<"x", "\n">>, u2 |-> NoFile], FALSE, {})
    /\ inv = [p \in Procs |-> Idle]
    /\ chain = NoChain

CfgMountStep(p) ==
    \/ CfgMountFind(p) \/ CfgGetUDC(p) \/ CfgDisable(p) \/ CfgMkFunc(p) \/ CfgLink(p)
    \/ CfgMountClear(p) \/ CfgMountCdrom(p) \/ CfgMountRo(p) \/ CfgMountPath(p)
    \/ CfgMountVerify(p) \/ CfgRestore(p)

NextConfigs == \E p \in Procs : CallMount(p) \/ CfgMountStep(p)

SpecConfigs == InitConfigs /\ [][NextConfigs]_vars

(***************************************************************************)
(* UDC backend with soft-connect support: two earlier versions of udc.go.  *)
(* In the first, Mount reconnects after the verification; in the second    *)
(* the reconnection is deferred right after the disconnection.  focus      *)
(* names the version that is built.                                        *)
(***************************************************************************)
SoftVersions == {"udc/softConnect", "udc/setUSBActive"}

RECURSIVE FirstSoftCtrl(_)
FirstSoftCtrl(i) ==
    IF i > Len(Ctrls) THEN "none"
    ELSE IF fileExists(SoftConnectFile(Ctrls[i])) THEN Ctrls[i]
    ELSE FirstSoftCtrl(i + 1)

softConnectAction(active) == IF active THEN <<"connect">> ELSE <<"disconnect">>

\* softConnect(action) / setUSBActive(active): write the action to the
\* soft_connect attribute of the first controller that has one.  The
\* outcomes: the files afterwards, the controller written to ("none" when no
\* write was made) and the error returned ("ok" is nil)
softConnect(active) ==
    {[fs |-> fs, ctrl |-> "none", res |-> "read udc dir"] : ok \in ReadOutcomes \ {TRUE}}
    \cup (IF FirstSoftCtrl(1) = "none"
          THEN {[fs |-> fs, ctrl |-> "none", res |-> "soft_connect not found"]}
          ELSE {[fs |-> writeFile(SoftConnectFile(FirstSoftCtrl(1)), softConnectAction(active), o),
                 ctrl |-> FirstSoftCtrl(1), res |-> o] :
                   o \in WriteOutcomes(SoftConnectFile(FirstSoftCtrl(1)))})

\* the frame after a call of softConnect with outcome r
SoftNoted(f, r) ==
    [f EXCEPT !.soft = Append(@, <<r.ctrl, r.res>>), !.faults = @ \/ (r.res # "ok")]

\* Mount, lines 43-46
SoftMountFind(p) ==
    /\ L(p).pc = "sc_find"
    /\ UNCHANGED <<fs, dirs, focus>>
    /\ IF findLunFile.err THEN Return(p, L(p), "find lun file")
       ELSE Goto(p, [L(p) EXCEPT !.tgt = findLunFile.ctrl], "sc_disconnect")

\* mutant: a failed disconnection aborts Mount
SoftDisconnectAborts(p) ==
    /\ L(p).pc = "sc_disconnect"
    /\ UNCHANGED <<dirs, focus>>
    /\ \E r \in softConnect(FALSE) :
         /\ fs' = r.fs
         /\ IF r.res = "ok" THEN Goto(p, SoftNoted(L(p), r), "sc_clear")
            ELSE Return(p, SoftNoted(L(p), r), "disconnect USB")

\* Mount, lines 48-52: a failed disconnection is logged and Mount goes on
SoftDisconnect(p) ==
    /\ L(p).pc = "sc_disconnect"
    /\ UNCHANGED <<dirs, focus>>
    /\ \E r \in softConnect(FALSE) :
         fs' = r.fs /\ Goto(p, SoftNoted(L(p), r), "sc_clear")

\* mutant: a failed step returns at once in both versions
SoftFailReturns(p, f, err) == Return(p, [f EXCEPT !.faults = TRUE], err)

\* a step after the disconnection fails: the second version runs its
\* deferred reconnection, the first returns at once
SoftFail(p, f, err) ==
    IF focus = "udc/setUSBActive"
    THEN Goto(p, [f EXCEPT !.err = err, !.faults = TRUE], "sc_reconnect")
    ELSE Return(p, [f EXCEPT !.faults = TRUE], err)

SoftWrite(p, at, content, err, next) ==
    /\ L(p).pc = at
    /\ UNCHANGED <<dirs, focus>>
    /\ \E o \in WriteOutcomes(UdcLunFile(L(p).tgt)) :
         /\ fs' = writeFile(UdcLunFile(L(p).tgt), content, o)
         /\ IF o = "err" THEN SoftFail(p, L(p), err)
            ELSE Goto(p, Faulted(L(p), o # "ok"), next)

\* Mount, lines 62-66: clear the LUN file
SoftMountClear(p) == SoftWrite(p, "sc_clear", <<>>, "clear lun file", "sc_path")

\* Mount, lines 68-72: write the image path
SoftMountPath(p) == SoftWrite(p, "sc_path", L(p).path, "mount image", "sc_verify")

\* Mount, lines 74-78: verify, then reconnect
SoftMountVerify(p) ==
    /\ L(p).pc = "sc_verify"
    /\ UNCHANGED <<fs, dirs, focus>>
    /\ \E ok \in ReadOutcomes :
         IF verifyMount(UdcLunFile(L(p).tgt), L(p).path, ok)
         THEN SoftFail(p, Faulted(L(p), ~ok), "verify mount")
         ELSE Goto(p, L(p), "sc_reconnect")

\* Mount, lines 54-60 (first version: lines 72-76): the reconnection; its failure is logged and the result of Mount is
\* the one the inner steps gave
SoftReconnect(p) ==
    /\ L(p).pc = "sc_reconnect"
    /\ UNCHANGED <<dirs, focus>>
    /\ \E r \in softConnect(TRUE) :
         fs' = r.fs /\ Return(p, [SoftNoted(L(p), r) EXCEPT !.rfail = (r.res # "ok")], L(p).err)

CallSoftMount(p) ==
    /\ Free(p) /\ focus \in SoftVersions
    /\ \E path \in Paths, opts \in Opts :
         inv' = [inv EXCEPT ![p] = [Idle EXCEPT !.pc = "sc_find", !.op = "mount", !.be = "udc",
                                                !.path = path, !.opts = opts, !.called = TRUE]]
    /\ UNCHANGED <<fs, dirs, chain, focus>>

\* the controllers that have a LUN file and those that have soft_connect
SoftWorlds == [luns : SUBSET CtrlSet, softs : SUBSET CtrlSet]

InitSoft ==
    /\ focus \in SoftVersions
    /\ \E w \in SoftWorlds :
         fs = [k \in Files |->
                 IF k \in {UdcLunFile(c) : c \in w.luns} THEN <<"\n">>
                 ELSE IF k \in {SoftConnectFile(c) : c \in w.softs} THEN <<"connect", "\n">>
                 ELSE NoFile]
    /\ dirs = {}
    /\ inv = [p \in Procs |-> Idle]
    /\ chain = NoChain

NextSoft ==
    \E p \in Procs :
        \/ CallSoftMount(p) \/ SoftMountFind(p) \/ SoftDisconnect(p) \/ SoftMountClear(p)
        \/ SoftMountPath(p) \/ SoftMountVerify(p) \/ SoftReconnect(p)

SpecSoft == InitSoft /\ [][NextSoft]_vars

(***************************************************************************)
(* Gadget resolution of the earlier configfs.go, which makes a gadget g1   *)
(* when no gadget is bound.  A gadget directory exists exactly when its    *)
(* UDC attribute does; accept is the set of controllers whose binding      *)
(* write the kernel takes during the call.                                 *)
(***************************************************************************)
\* the first controller, in enumeration order, whose binding write succeeds
RECURSIVE FirstAccepting(_, _)
FirstAccepting(accept, i) ==
    IF i > Len(Ctrls) THEN "none"
    ELSE IF Ctrls[i] \in accept THEN Ctrls[i]
    ELSE FirstAccepting(accept, i + 1)

\* where the creation of g1 can end: at an error before or after the gadget
\* directory or its config directory was made, or at its last statement
SynthStops == {"create gadget", "set idVendor", "create config dir", "set configuration",
               "complete"}

\* findGadgetRoot of the earlier version, lines 201-294
SynthFindGadgetRoot(p) ==
    /\ Free(p) /\ focus = "configfs/synth"
    /\ \E accept \in SUBSET CtrlSet, mk \in ReadOutcomes, stop \in SynthStops :
         LET f0 == [Idle EXCEPT !.pc = "done", !.op = "find", !.be = "configfs",
                                !.accept = accept, !.called = TRUE,
                                !.udc0 = BindingAtEntry("configfs")]
             made(err, tgt) == inv' = [inv EXCEPT ![p] = [f0 EXCEPT !.err = err, !.tgt = tgt]]
             bound == FirstAccepting(accept, 1)
         IN
         IF ~dirExists(GadgetDir) /\ ~mk
         THEN made("create usb_gadget dir", "none") /\ UNCHANGED <<fs, dirs>>
         ELSE IF FirstActiveGadget(1) # "none"
         THEN made("", FirstActiveGadget(1)) /\ dirs' = dirs \cup {GadgetDir} /\ fs' = fs
         ELSE IF fs[UDCFile("g1")] # NoFile
         THEN made("", "g1") /\ dirs' = dirs \cup {GadgetDir} /\ fs' = fs
         ELSE IF stop = "create gadget"
         THEN made(stop, "none") /\ dirs' = dirs \cup {GadgetDir} /\ fs' = fs
         ELSE IF stop = "set idVendor"
         THEN /\ made(stop, "none") /\ dirs' = dirs \cup {GadgetDir}
              /\ fs' = [fs EXCEPT ![UDCFile("g1")] = <<"\n">>]
         ELSE IF stop = "create config dir"
         THEN /\ made(stop, "none") /\ dirs' = dirs \cup {GadgetDir}
              /\ fs' = [fs EXCEPT ![UDCFile("g1")] = <<"\n">>]
         ELSE IF stop = "set configuration"
         THEN /\ made(stop, "none") /\ dirs' = dirs \cup {GadgetDir, ConfigDir("g1")}
              /\ fs' = [fs EXCEPT ![UDCFile("g1")] = <<"\n">>]
         ELSE /\ made("", "g1") /\ dirs' = dirs \cup {GadgetDir, ConfigDir("g1")}
              /\ fs' = [fs EXCEPT ![UDCFile("g1")] =
                                    IF bound = "none" THEN <<"\n">>
                                    ELSE writeFileBytes(<<bound>>)]
    /\ UNCHANGED <<chain, focus>>

\* the bound gadget is unbound from outside the tool (as by its Mount, whose
\* restoration write can fail)
SynthUnbind(g) ==
    /\ focus = "configfs/synth" /\ \A p \in Procs : Free(p)
    /\ fs[UDCFile(g)] # NoFile /\ TrimSpace(fs[UDCFile(g)]) # <<>>
    /\ fs' = [fs EXCEPT ![UDCFile(g)] = <<"\n">>]
    /\ UNCHANGED <<dirs, inv, chain, focus>>

InitSynth ==
    /\ focus = "configfs/synth"
    /\ \E hasDir \in BOOLEAN, u1 \in {NoFile, <<"\n">>, <<"c1", "\n">>},
          u2 \in {NoFile, <<"\n">>, <<"c2", "\n">>} :
         /\ ~hasDir => (u1 = NoFile /\ u2 = NoFile)
         /\ dirs = (IF hasDir THEN {GadgetDir} ELSE {})
                      \cup (IF u1 # NoFile THEN {ConfigDir("g1")} ELSE {})
         /\ fs = KernelFiles([d |-> dirs, u1 |-> u1, u2 |-> u2], FALSE, {})
    /\ inv = [p \in Procs |-> Idle]
    /\ chain = NoChain

NextSynth ==
    \/ \E p \in Procs : SynthFindGadgetRoot(p)
    \/ \E g \in GadgetSet : SynthUnbind(g)

SpecSynth == InitSynth /\ [][NextSynth]_vars

(***************************************************************************)
(* Two invocations of the tool at once on the gadget g1: each runs one     *)
(* ConfigFS Mount or Unmount, and their reads and writes interleave.       *)
(***************************************************************************)
Pair == {1, 2}

PairCall(p) ==
    /\ L(p).pc = "idle" /\ focus = "configfs/pair"
    /\ \/ \E path \in Paths \ {<<>>}, opts \in Opts : BeginMount(p, "configfs", path, opts, NoCli)
       \/ BeginUnmount(p, "configfs", NoCli)

PairStep(p) == CfgMountStep(p) \/ CfgUnmountFind(p) \/ CfgUnmountClear(p) \/ CfgUnmountVerify(p)

\* g1 is bound to the controller x and has the mass storage function
InitPair ==
    /\ focus = "configfs/pair"
    /\ dirs = {GadgetDir, ConfigDir("g1"), FunctionDir("g1"), ConfigLink("g1")}
    /\ fs = KernelFiles([d |-> dirs, u1 |-> <<"x", "\n">>, u2 |-> NoFile], FALSE, {})
    /\ inv = [p \in Pair |-> Idle]
    /\ chain = NoChain

NextPair == \E p \in Pair : PairCall(p) \/ PairStep(p)

SpecPair == InitPair /\ [][NextPair]_vars

(***************************************************************************)
(* Image validation on a filesystem with symbolic links.  /x and /data may *)
(* be symbolic links; validateSafePath is run one call at a time, each     *)
(* recursive call being one step.                                          *)
(***************************************************************************)
SymPaths == {<<"/", "x">>, <<"/", "data">>}

NoLink == <<>>

SymTargets == {NoLink, <<"/", "x">>, <<"/", "data">>, <<"/", "sys">>,
               <<"x">>, <<"data">>, <<"sys">>}

Symlinks == [SymPaths -> SymTargets]

IsLink(node, sl) == node \in SymPaths /\ sl[node] # NoLink

\* where the link at node leads
LinkedTo(node, sl) == IF IsAbs(sl[node]) THEN sl[node] ELSE Join(Dir(node), sl[node])

\* a lookup that met too many links
Loop == <<"#loop">>

\* the file a path names once every link on it is followed, as os.Stat and
\* os.Open look it up
RECURSIVE Resolve(_, _, _)
Resolve(path, sl, hops) ==
    LET on == {s \in SymPaths : IsLink(s, sl) /\ (path = s \/ HasPrefix(path, s \o <<"/">>))}
    IN IF on = {} THEN path
       ELSE IF hops = 0 THEN Loop
       ELSE LET s == CHOOSE s \in on : TRUE
            IN Resolve(LinkedTo(s, sl) \o SubSeq(path, Len(s) + 1, Len(path)), sl, hops - 1)

\* filepath.Base of a clean absolute path
Base(path) == SubSeq(path, Len(Dir(path)) + (IF Dir(path) = <<"/">> THEN 1 ELSE 2), Len(path))

\* os.Readlink: the links of the directory part are followed, the last
\* component must itself be a link; NoLink is the error
Readlink(path, sl) ==
    LET parent == Resolve(Dir(path), sl, MaxHops)
        node   == Join(parent, Base(path))
    IN IF path = <<"/">> \/ parent = Loop \/ ~IsLink(node, sl) THEN NoLink ELSE sl[node]

\* the paths validated on this filesystem are absolute ones, and what is
\* found at the end of the links is a regular file or nothing accessible
LinkPaths == {s \in ImagePaths : IsAbs(s)}

LinkKinds == {"file", "noaccess"}

\* one call of validateSafePath, lines 208-234
ValidateSafePath(p) ==
    /\ L(p).pc = "vs_call"
    /\ LET cur    == L(p).vs.cur
           target == Readlink(cur, L(p).vs.sl)
       IN inv' = [inv EXCEPT ![p] =
              IF \E i \in 1..Len(dangerousPaths) : HasPrefix(cur, dangerousPaths[i])
              THEN [L(p) EXCEPT !.pc = "done", !.err = "system directory"]
              ELSE IF target = NoLink THEN [L(p) EXCEPT !.pc = "vs_stat"]
              ELSE IF L(p).vs.depth = StackLimit THEN [L(p) EXCEPT !.pc = "overflow"]
              ELSE [L(p) EXCEPT !.vs.depth = @ + 1,
                                !.vs.cur = IF IsAbs(target) THEN target
                                           ELSE Join(Dir(cur), target)]]
    /\ UNCHANGED <<fs, dirs, chain, focus>>

\* validateImage after the path check, lines 182-205
ValidateStat(p) ==
    /\ L(p).pc = "vs_stat"
    /\ inv' = [inv EXCEPT ![p] =
                 [L(p) EXCEPT !.pc = "done",
                              !.err = validateImage(L(p).path,
                                                    [L(p).img EXCEPT !.links = <<>>])]]
    /\ UNCHANGED <<fs, dirs, chain, focus>>

InitLinks ==
    /\ focus = "image/links"
    /\ fs = [k \in Files |-> NoFile]
    /\ dirs = {}
    /\ chain = NoChain
    /\ \E path \in LinkPaths, sl \in Symlinks, kind \in LinkKinds :
         /\ Resolve(Abs(path), sl, MaxHops) = Loop => kind = "noaccess"
         /\ inv = [p \in Procs |->
                     [Idle EXCEPT !.pc = "vs_call", !.op = "validate", !.path = path,
                                  !.img = [kind |-> kind, links |-> <<>>],
                                  !.vs = [cur |-> Abs(path), depth |-> 0, sl |-> sl]]]

NextLinks == \E p \in Procs : ValidateSafePath(p) \/ ValidateStat(p)

SpecLinks == InitLinks /\ [][NextLinks]_vars

(***************************************************************************)
(* findMountPoint on a mount table: each entry of /proc/mounts is a line   *)
(* of fields, the first three being device, mount point and type.          *)
(***************************************************************************)
MountDevices == {"none", "configfs"}

MountPoints == {"/sys/kernel/config", "/config", "/mnt"}

MountTypes == {"configfs", "ext4"}

MountEntries == [dev : MountDevices, mp : MountPoints, type : MountTypes]

MountTables == UNION {[1..n -> MountEntries] : n \in 0..MaxMounts}

\* strings.Fields of an entry
Fields(e) == <<e.dev, e.mp, e.type>>

RECURSIVE scanMounts(_, _, _)
scanMounts(table, fsType, i) ==
    IF i > Len(table) THEN ""
    ELSE IF Len(Fields(table[i])) >= 3 /\ Fields(table[i])[1] = fsType THEN Fields(table[i])[2]
    ELSE scanMounts(table, fsType, i + 1)

\* findMountPoint(fsType), lines 116-142
findMountPoint(table, fsType) ==
    IF scanMounts(table, fsType, 1) # "" THEN scanMounts(table, fsType, 1)
    ELSE IF fsType = "configfs" /\ dirExists(<<"/sys/kernel/config">>) THEN "/sys/kernel/config"
    ELSE IF fsType = "configfs" /\ dirExists(<<"/config">>) THEN "/config"
    ELSE ""

FindMountPoint(p) ==
    /\ L(p).pc = "fm_call"
    /\ inv' = [inv EXCEPT ![p] = [L(p) EXCEPT !.pc = "done",
                                             !.tgt = findMountPoint(L(p).mtab.table,
                                                                    L(p).mtab.fsType)]]
    /\ UNCHANGED <<fs, dirs, chain, focus>>

InitMounts ==
    /\ focus = "mounts"
    /\ fs = [k \in Files |-> NoFile]
    /\ dirs \in SUBSET {<<"/sys/kernel/config">>, <<"/config">>}
    /\ \E table \in MountTables, fsType \in MountTypes :
         inv = [p \in Procs |-> [Idle EXCEPT !.pc = "fm_call", !.op = "findMountPoint",
                                             !.mtab = [fsType |-> fsType, table |-> table]]]
    /\ chain = NoChain

NextMounts == \E p \in Procs : FindMountPoint(p)

SpecMounts == InitMounts /\ [][NextMounts]_vars

(***************************************************************************)
(* Properties of the commands and of the selector.                         *)
(***************************************************************************)
ConflictingRequest(f) == f.op = "mount" /\ f.req.CDROM /\ f.req.ReadWrite

\* C5: a mount request that resolves to CD-ROM together with read-write is
\* rejected in the step that resolves it: no backend is selected or called and
\* no kernel control file or directory changes
C5_ConflictRejected ==
    [][\A p \in Procs :
          ConflictingRequest(inv'[p])
          => /\ inv'[p].pc = "done" /\ inv'[p].err = "cdrom with rw"
             /\ ~inv'[p].sel.reached /\ inv'[p].be = "none" /\ ~inv'[p].called
             /\ fs' = fs /\ dirs' = dirs]_vars

\* C5 witness: mount -cdrom -rw was rejected
C5_Witness ==
    \E p \in Procs :
        /\ ConflictingRequest(L(p)) /\ L(p).pc = "done" /\ L(p).err = "cdrom with rw"
        /\ L(p).cli.src = "flags" /\ L(p).cli.cdrom /\ L(p).cli.rw /\ ~L(p).cli.ro

\* C6: a command-line mount with -cdrom and neither -ro nor -rw is not
\* rejected for its options, and calls Mount with {CDROM: true, ReadWrite: false}
C6_CdromAloneAccepted ==
    \A p \in Procs :
        (L(p).op = "mount" /\ L(p).cli.src = "flags" /\ L(p).cli.cdrom
           /\ ~L(p).cli.ro /\ ~L(p).cli.rw)
        => /\ L(p).err # "cdrom with rw"
           /\ L(p).called => L(p).opts = [ReadWrite |-> FALSE, CDROM |-> TRUE]

ReadOnlyRequested(f) ==
    \/ f.cli.src = "flags" /\ f.cli.ro
    \/ f.cli.src = "config" /\ f.cli.mode = "ro"

\* C7: after a successful mount for which read-only was requested, the image
\* the selected backend exposes is reported read-only
C7_ReadOnlyHonoured ==
    \A p \in Procs :
        (L(p).pc = "done" /\ L(p).op = "mount" /\ L(p).called /\ L(p).err = ""
           /\ ReadOnlyRequested(L(p)) /\ Status(L(p).be, {}).Mounted)
        => Status(L(p).be, {}).ReadOnly

C9_ForcedSelect ==
    \A p \in Procs :
        (L(p).sel.reached /\ L(p).cli.force # "")
        => L(p).sel = (IF L(p).cli.force \notin BackendNames
                       THEN SelectError("unknown backend", L(p).cli.force)
                       ELSE IF Supported(L(p).cli.force) THEN Selected(L(p).cli.force)
                       ELSE SelectError("not supported", L(p).cli.force))

\* C9 witness: sysfs was forced on a kernel that has only the ConfigFS interface
C9_Witness ==
    \E p \in Procs :
        /\ L(p).sel.reached /\ L(p).cli.force = "sysfs"
        /\ L(p).sel = SelectError("not supported", "sysfs")
        /\ ConfigFSSupported /\ ~SysfsSupported /\ ~UDCSupported

\* C10: every backend name the configuration loader accepts resolves to a
\* candidate; "legacy" selects the UDC-gadget backend where its LUN file exists
C10_ConfigNamesResolve ==
    \A p \in Procs :
        (L(p).sel.reached /\ L(p).cli.force # "" /\ configBackendOk(L(p).cli.force))
        => /\ L(p).sel.err # "unknown backend"
           /\ (L(p).cli.force = "legacy" /\ UDCSupported) => L(p).sel.be = "udc"

SysfsMountPcs == {"sm_disable", "sm_file", "sm_func", "sm_enable"}

\* C11: a mount command never runs the Sysfs backend's Mount with ReadWrite
\* true: a read-write request is demoted before the call, whether it came from
\* flags or from a config file
C11_SysfsNeverReadWrite ==
    \A p \in Procs :
        (L(p).op = "mount" /\ L(p).cli.src \in {"flags", "config"}
           /\ (L(p).pc \in SysfsMountPcs \/ (L(p).called /\ L(p).be = "sysfs")))
        => /\ L(p).be = "sysfs" /\ L(p).called
           /\ L(p).pc \in SysfsMountPcs => ~L(p).opts.ReadWrite
           /\ (L(p).pc = "done" /\ L(p).err = "") => ~L(p).opts.ReadWrite

\* C11 witness: Sysfs Mount is running for a request that resolved to
\* read-write, with ReadWrite false
C11_Witness ==
    \E p \in Procs :
        /\ L(p).op = "mount" /\ L(p).pc = "sm_disable" /\ L(p).cli.src = "config"
        /\ L(p).req.ReadWrite /\ ~L(p).opts.ReadWrite

\* the three Sysfs attributes hold what a Mount of path writes, whatever opts
SysfsHoldsMount(path) ==
    /\ fs[sysfsFile] = writeFileBytes(path)
    /\ fs[sysfsFeatures] = writeFileBytes(<<"mass_storage">>)
    /\ fs[sysfsEnable] = writeFileBytes(<<"1">>)

StatedModeOptions(mode) ==
    CASE mode = "ro"    -> [ReadWrite |-> FALSE, CDROM |-> FALSE]
      [] mode = "cdrom" -> [ReadWrite |-> FALSE, CDROM |-> TRUE]
      [] OTHER          -> [ReadWrite |-> TRUE, CDROM |-> FALSE]

\* a mount command driven by a config file has called the backend and the
\* call is running or has succeeded
ConfigMountCalled(p) ==
    /\ L(p).op = "mount" /\ L(p).cli.src = "config" /\ L(p).called
    /\ L(p).pc # "done" \/ L(p).err = ""

\* a config mount with mode cdrom that succeeded on ConfigFS left the LUN file
\* holding the image path and the cdrom and ro attributes holding "1"
CdromConfigOutcome(p) ==
    (ConfigMountCalled(p) /\ L(p).pc = "done" /\ L(p).be = "configfs"
       /\ L(p).cli.mode = "cdrom")
    => /\ Content(LunAttr(L(p).tgt, "file")) = L(p).path
       /\ Content(LunAttr(L(p).tgt, "cdrom")) = <<"1">>
       /\ Content(LunAttr(L(p).tgt, "ro")) = <<"1">>

\* C13 as stated: driven by a config file, the backend is called with the
\* options the mode maps to (ro, cdrom, rw or absent), and mode cdrom on
\* ConfigFS ends with the path in the LUN file, cdrom "1" and ro "1"
C13_ModeMapsToOptions ==
    \A p \in Procs :
        /\ ConfigMountCalled(p) => L(p).opts = StatedModeOptions(L(p).cli.mode)
        /\ CdromConfigOutcome(p)

\* C13 amended: the same, except that on the Sysfs backend mode rw or absent
\* reaches Mount as {readWrite: false, cdrom: false}
C13_ModeMapsToOptionsUnlessSysfs ==
    \A p \in Procs :
        /\ ConfigMountCalled(p)
             => L(p).opts = (IF L(p).be = "sysfs"
                             THEN [StatedModeOptions(L(p).cli.mode) EXCEPT !.ReadWrite = FALSE]
                             ELSE StatedModeOptions(L(p).cli.mode))
        /\ CdromConfigOutcome(p)

\* C13 witness: a config mount with mode cdrom succeeded on ConfigFS
C13_Witness ==
    \E p \in Procs :
        /\ ConfigMountCalled(p) /\ L(p).pc = "done" /\ L(p).be = "configfs"
        /\ L(p).cli.mode = "cdrom" /\ L(p).opts = [ReadWrite |-> FALSE, CDROM |-> TRUE]
        /\ L(p).path = <<"/", "a">> /\ Content(LunAttr(L(p).tgt, "file")) = <<"/", "a">>
        /\ Content(LunAttr(L(p).tgt, "cdrom")) = <<"1">>

\* Status of backend b cannot tell what is mounted: discovery finds no gadget,
\* function or LUN file, or the read of the LUN file fails
StatusBlind(b, bad) ==
    CASE b = "configfs" -> \/ findGadgetRoot.err
                           \/ ~dirExists(FunctionDir(findGadgetRoot.root))
                           \/ LunAttr(findGadgetRoot.root, "file") \in bad
                           \/ ~fileExists(LunAttr(findGadgetRoot.root, "file"))
      [] b = "udc"      -> findLunFile.err \/ UdcLunFile(findLunFile.ctrl) \in bad
      [] b = "sysfs"    -> sysfsFile \in bad \/ ~fileExists(sysfsFile)

\* C14: in every kernel state and whichever reads fail, Status() of every
\* backend returns a nil error, and mounted == false when discovery or the
\* read of the LUN file fails
C14_StatusNeverErrs ==
    /\ \A p \in Procs : (L(p).op = "status" /\ L(p).pc = "done") => L(p).err = ""
    /\ \A b \in BackendNames : \A bad \in SUBSET StatusReads(b) :
          /\ ~StatusErr(b, bad)
          /\ StatusBlind(b, bad) => Status(b, bad) = NotMounted

\* C14 witness: Status() was called on a mounted image, the read of the LUN
\* file failed, and it returned not mounted with a nil error
C14_Witness ==
    \E p \in Procs :
        /\ L(p).op = "status" /\ L(p).pc = "done" /\ L(p).called /\ L(p).faults
        /\ L(p).err = "" /\ L(p).status = NotMounted
        /\ Status(L(p).be, {}).Mounted

\* C15: after a successful mount through the backend the selector picked (the
\* image path is in that backend's LUN file), the status command reports that
\* backend, mounted, with that file
C15_StatusReportsMountBackend ==
    \A p \in Procs :
        (L(p).op = "status" /\ L(p).pc = "done" /\ L(p).cli.src = "flags"
           /\ chain.n = 1 /\ Content(LunFileOf(chain.be, chain.tgt)) # <<>>)
        => /\ L(p).be = chain.be
           /\ L(p).status.Mounted
           /\ L(p).status.File = Content(LunFileOf(chain.be, chain.tgt))

\* C16: the step of a Mount or Unmount in which a non-cleanup step fails
\* changes no kernel file and leaves only the return or the restoration to
\* run; the restoration writes nothing but the UDC attribute and the call
\* returns the failed step's error
C16_AbortAfterFailure ==
    [][\A p \in Procs :
          /\ (inv[p].pc \notin {"idle", "done"} /\ inv[p].err = "" /\ inv'[p].err # "")
                => /\ inv'[p].pc \in {"done", "c_restore"}
                   /\ fs' = fs /\ dirs' = dirs
          /\ (inv[p].pc = "c_restore" /\ inv[p].err # "")
                => /\ inv'[p].pc = "done" /\ inv'[p].err = inv[p].err
                   /\ dirs' = dirs
                   /\ \A k \in Files \ {UDCFile(inv[p].tgt)} : fs'[k] = fs[k]]_vars

\* C16 witness: a ConfigFS Mount whose cdrom write failed returned that error;
\* the image path was not written and the binding was restored
C16_Witness ==
    \E p \in Procs :
        /\ Done(p, "mount", "configfs") /\ L(p).err = "set cdrom flag"
        /\ Content(LunAttr(L(p).tgt, "file")) = <<>>
        /\ L(p).udc0 # <<>> /\ Content(UDCFile(L(p).tgt)) = L(p).udc0

\* C17: a Mount of any backend that returns success has left the requested
\* path in the LUN file: when the kernel rejected or altered the written value
\* the Mount returns a verification error
C17_MountVerified ==
    \A p \in Procs :
        (L(p).pc = "done" /\ L(p).op = "mount" /\ L(p).be \in BackendNames /\ L(p).err = "")
        => Content(LunFileOf(L(p).be, L(p).tgt)) = L(p).path

\* the path is a deny-listed directory or lies under one
UnderDenied(path) ==
    \E i \in 1..Len(dangerousPaths) :
        path = dangerousPaths[i] \/ HasPrefix(path, dangerousPaths[i] \o <<"/">>)

\* C18: validateImage accepts every existing, regular, non-empty, readable
\* file that is not under a deny-listed directory (and is no symbolic link),
\* and rejects every path under a deny-listed directory, every zero-byte file
\* and every directory
C18_ValidateImage ==
    \A p \in Procs :
        (L(p).op = "validate" /\ L(p).pc = "done")
        => /\ (L(p).img.kind = "file" /\ L(p).img.links = <<>>
                 /\ ~UnderDenied(Abs(L(p).path))) => L(p).err = ""
           /\ (UnderDenied(Abs(L(p).path)) \/ L(p).img.kind \in {"dir", "empty"})
                 => L(p).err # ""

\* C19: a command given -n returns in the step that starts it, without calling
\* Mount or Unmount, and with every kernel control file and directory unchanged
C19_DryRunWritesNothing ==
    [][\A p \in Procs :
          (inv'[p].cli.dry /\ inv'[p] # inv[p])
          => /\ inv'[p].pc = "done" /\ ~inv'[p].called
             /\ fs' = fs /\ dirs' = dirs]_vars

\* C19 witness: mount -n returned success with ConfigFS selected
C19_Witness ==
    \E p \in Procs :
        /\ L(p).op = "mount" /\ L(p).pc = "done" /\ L(p).cli.dry /\ L(p).err = ""
        /\ L(p).sel.be = "configfs" /\ ~L(p).called
        /\ L(p).path # <<>> /\ Content(LunAttr("g1", "file")) = <<>>

\* where a ConfigFS Mount or Unmount writes a LUN attribute
LunWritePcs == {"cm_clear", "cm_cdrom", "cm_ro", "cm_path", "cu_clear"}

\* C20: in a ConfigFS Mount or Unmount every write to lun.0/file, lun.0/ro and
\* lun.0/cdrom is made while the gadget's UDC attribute is empty: after the
\* disable write succeeded and before the restoration write
C20_LunWritesWhileDetached ==
    [][/\ \A p \in Procs :
            (inv[p].pc \in LunWritePcs /\ inv'[p] # inv[p])
                => /\ Content(UDCFile(inv[p].tgt)) = <<>>
                   /\ TrimSpace(fs'[UDCFile(inv[p].tgt)]) = <<>>
                   /\ inv'[p].pc # "done"
       /\ \A g \in GadgetSet : \A a \in {"file", "ro", "cdrom"} :
                (fs[LunAttr(g, a)] # NoFile /\ fs'[LunAttr(g, a)] # fs[LunAttr(g, a)])
                => \E q \in Procs : inv[q].pc \in LunWritePcs /\ inv[q].tgt = g]_vars

\* C20 witness: a ConfigFS Mount has written cdrom = 1 and is about to write
\* ro, with the gadget detached
C20_Witness ==
    \E p \in Procs :
        /\ L(p).be = "configfs" /\ L(p).op = "mount" /\ L(p).pc = "cm_ro"
        /\ L(p).opts.CDROM /\ Content(LunAttr(L(p).tgt, "cdrom")) = <<"1">>
        /\ L(p).udc # <<>> /\ Content(UDCFile(L(p).tgt)) = <<>>

\* the steps of a ConfigFS Mount on the LUN, in the order of the code, and the
\* attribute each of them writes
MountLunSteps == <<"cm_clear", "cm_cdrom", "cm_ro", "cm_path", "cm_verify">>

MountLunAttr == <<"file", "cdrom", "ro", "file", "none">>

\* C21: a ConfigFS Mount writes the LUN attributes in the order clear, cdrom,
\* ro, path, and then verifies: each step is entered only from the one before
\* it and only when that one's write returned no error, each step changes at
\* most its own attribute, and a failed step ends the sequence; so the path is
\* written only after the clear and both flag writes of the call succeeded
C21_LunWriteOrder ==
    [][\A p \in Procs : \A i \in 1..Len(MountLunSteps) :
          /\ (i > 1 /\ inv'[p].pc = MountLunSteps[i] /\ inv[p].pc # MountLunSteps[i])
                => /\ inv[p].pc = MountLunSteps[i - 1]
                   /\ inv'[p].err = "" /\ inv'[p].op = "mount"
                   /\ inv'[p].tgt = inv[p].tgt /\ inv'[p].path = inv[p].path
          /\ (inv[p].pc = MountLunSteps[i] /\ inv'[p] # inv[p])
                => /\ \A k \in Files : fs'[k] # fs[k]
                         => k = LunAttr(inv[p].tgt, MountLunAttr[i])
                   /\ \/ i < Len(MountLunSteps) /\ inv'[p].pc = MountLunSteps[i + 1]
                      \/ inv'[p].pc = "c_restore"
                            /\ (i < Len(MountLunSteps) => inv'[p].err # "")
          /\ (inv[p].pc = "cm_path" /\ fs' # fs)
                => fs'[LunAttr(inv[p].tgt, "file")] = writeFileBytes(inv[p].path)]_vars

\* C21 witness: a Mount of a CD-ROM image has cleared the LUN file, written
\* cdrom = 1 and ro = 1 and then the path, and is about to verify
C21_Witness ==
    \E p \in Procs :
        /\ L(p).be = "configfs" /\ L(p).op = "mount" /\ L(p).pc = "cm_verify"
        /\ L(p).path # <<>> /\ L(p).opts = [ReadWrite |-> FALSE, CDROM |-> TRUE]
        /\ Content(LunAttr(L(p).tgt, "cdrom")) = <<"1">>
        /\ Content(LunAttr(L(p).tgt, "ro")) = <<"1">>
        /\ fs[LunAttr(L(p).tgt, "file")] = writeFileBytes(L(p).path)

\* the config directories of gadget g the mass storage function is linked into
LinkedConfigs(g) == {c \in {Configs[i] : i \in 1..Len(Configs)} : pathExists(LinkIn(ConfigRoot(g, c)))}

\* C22 as stated: when a ConfigFS Mount that returns success is about to bind
\* the UDC again, the mass_storage.0 function exists and is linked into
\* exactly one config directory of the gadget, the resolved one
C22_LinkedIntoOneConfig ==
    \A p \in Procs :
        (L(p).be = "configfs" /\ L(p).op = "mount" /\ L(p).pc = "c_restore" /\ L(p).err = ""
           /\ restoreWrites(L(p).udc))
        => /\ dirExists(FunctionDir(L(p).tgt))
           /\ \E c \in LinkedConfigs(L(p).tgt) :
                 /\ LinkedConfigs(L(p).tgt) = {c}
                 /\ L(p).cfg = ConfigRoot(L(p).tgt, c)

\* the error a ConfigFS Mount or Unmount returns when the step at a pc fails
InnerStepError ==
    [cm_mkfunc |-> "create mass_storage function", cm_link |-> "link mass_storage to config",
     cm_clear |-> "clear lun file", cm_cdrom |-> "set cdrom flag", cm_ro |-> "set ro flag",
     cm_path |-> "mount image", cu_clear |-> "clear lun file"]

\* C23: the result of a ConfigFS Mount or Unmount is fixed when the deferred
\* restoration starts and the restoration does not change it: the restoration
\* starts with the error of the one inner step that failed (or of the failed
\* verification), or with none when no inner step failed, and the call returns
\* exactly that, whether or not the restoration write succeeds
C23_RestoreOutcomeIgnored ==
    [][\A p \in Procs :
          /\ (inv[p].pc = "c_restore" /\ inv'[p] # inv[p])
                => inv'[p].pc = "done" /\ inv'[p].err = inv[p].err
          /\ (inv'[p].pc = "c_restore" /\ inv[p].pc # "c_restore")
                => /\ inv[p].err = ""
                   /\ inv[p].pc \in DOMAIN InnerStepError
                         => inv'[p].err = InnerStepError[inv[p].pc] /\ fs' = fs
                   /\ inv[p].pc = "cm_verify"
                         => /\ inv'[p].err \in {"", "verify mount"}
                            /\ inv'[p].err = ""
                                  => Content(LunAttr(inv[p].tgt, "file")) = inv[p].path
                            /\ Content(LunAttr(inv[p].tgt, "file")) # inv[p].path
                                  => inv'[p].err = "verify mount"
                   /\ inv[p].pc = "cu_verify"
                         => /\ inv'[p].err \in {"", "verify unmount"}
                            /\ inv'[p].err = ""
                                  => Content(LunAttr(inv[p].tgt, "file")) = <<>>
                            /\ Content(LunAttr(inv[p].tgt, "file")) # <<>>
                                  => inv'[p].err = "verify unmount"
                   /\ inv[p].pc \in DOMAIN InnerStepError \cup {"cm_verify", "cu_verify"}]_vars

\* C23 witness: a Mount whose steps all succeeded returned success although
\* the write that binds the gadget again failed, and the gadget is detached
C23_Witness ==
    \E p \in Procs :
        /\ Done(p, "mount", "configfs") /\ L(p).err = "" /\ L(p).rfail
        /\ L(p).path # <<>> /\ Content(LunAttr(L(p).tgt, "file")) = L(p).path
        /\ L(p).udc # <<>> /\ Content(UDCFile(L(p).tgt)) = <<>>

\* the LUN files of a backend
LunFilesOf(b) ==
    CASE b = "configfs" -> {LunAttr(g, "file") : g \in GadgetSet}
      [] b = "udc"      -> {UdcLunFile(c) : c \in CtrlSet}
      [] b = "sysfs"    -> {sysfsFile}

\* the LUN files of a backend that hold something other than white space
HeldLunFiles(b) == {k \in LunFilesOf(b) : fs[k] # NoFile /\ TrimSpace(fs[k]) # <<>>}

\* no call is in progress
Quiescent == \A p \in Procs : Free(p)

StatusLunFile(b) ==
    CASE b = "configfs" ->
            LET bound == {i \in 1..Len(Gadgets) :
                             /\ fs[UDCFile(Gadgets[i])] # NoFile
                             /\ TrimSpace(fs[UDCFile(Gadgets[i])]) # <<>>}
            IN IF bound = {} THEN {}
               ELSE {LunAttr(Gadgets[CHOOSE i \in bound : \A j \in bound : i <= j], "file")}
      [] b = "udc" ->
            LET has == {i \in 1..Len(Ctrls) : fs[UdcLunFile(Ctrls[i])] # NoFile}
            IN IF has = {} THEN {}
               ELSE {UdcLunFile(Ctrls[CHOOSE i \in has : \A j \in has : i <= j])}
      [] b = "sysfs" -> {sysfsFile}

SysMountSteps == <<"sm_disable", "sm_file", "sm_func", "sm_enable", "done">>

SysMountFileOf == <<sysfsEnable, sysfsFile, sysfsFeatures, sysfsEnable>>

SysMountContent(path) == <<<<"0">>, path, <<"mass_storage">>, <<"1">>>>

\* C25: a Sysfs Mount writes enable = 0, the LUN file, functions =
\* mass_storage and enable = 1 in this order, each step entered only after
\* the one before it returned no error; the LUN file and the function list
\* are written only while enable holds 0; a Mount that returns success leaves
\* enable = 1 and functions = mass_storage
C25_SysfsMountOrder ==
    [][\A p \in Procs : \A i \in 1..4 :
          /\ (inv'[p].pc = SysMountSteps[i + 1] /\ inv'[p].op = "mount" /\ inv'[p].be = "sysfs"
                /\ inv'[p] # inv[p] /\ (i = 4 => inv'[p].err = ""))
                => inv[p].pc = SysMountSteps[i] /\ inv'[p].err = ""
          /\ (inv[p].pc = SysMountSteps[i] /\ inv'[p] # inv[p])
                => /\ \A k \in Files : fs'[k] # fs[k]
                         => /\ k = SysMountFileOf[i]
                            /\ fs'[k] = writeFileBytes(SysMountContent(inv[p].path)[i])
                   /\ i \in {2, 3} => /\ Content(sysfsEnable) = <<"0">>
                                      /\ TrimSpace(fs'[sysfsEnable]) = <<"0">>
                   /\ inv'[p].pc \in {SysMountSteps[i + 1], "done"}
                   /\ (inv'[p].pc = "done" /\ inv'[p].err = "")
                         => /\ i = 4
                            /\ TrimSpace(fs'[sysfsEnable]) = <<"1">>
                            /\ TrimSpace(fs'[sysfsFeatures]) = <<"mass_storage">>]_vars

\* C25 witness: a Sysfs Mount has disabled the function and written the image
\* path, and is about to write the function list
C25_Witness ==
    \E p \in Procs :
        /\ L(p).be = "sysfs" /\ L(p).op = "mount" /\ L(p).pc = "sm_func"
        /\ L(p).path = <<"a">> /\ fs[sysfsFile] = <<"a", "\n">>
        /\ Content(sysfsEnable) = <<"0">> /\ Content(sysfsFeatures) = <<"mtp">>

\* the state a finished Sysfs Unmount is meant to leave
SysfsReset ==
    /\ Content(sysfsFile) = <<>>
    /\ Content(sysfsFeatures) = <<"mtp">>
    /\ Content(sysfsEnable) = <<"1">>

\* a Sysfs Unmount that returned success left that state when the kernel
\* took every write of the call
SysfsUnmountResetsWhenWritesTaken ==
    \A p \in Procs :
        (Done(p, "unmount", "sysfs") /\ L(p).err = "" /\ ~L(p).faults) => SysfsReset

\* C26 as stated: after a Sysfs Unmount that returned success, whatever the
\* state it started in, the LUN file is empty, the function list holds mtp
\* and enable holds 1
C26_SysfsUnmountResets ==
    \A p \in Procs :
        (Done(p, "unmount", "sysfs") /\ L(p).err = "") => SysfsReset

\* the error a Sysfs Mount or Unmount returns when the step at a pc, one of
\* those after the disable write, fails
SysfsStepError ==
    [sm_file |-> "set image file", sm_func |-> "set mass_storage function",
     sm_enable |-> "enable USB", su_file |-> "clear image file",
     su_func |-> "reset to MTP", su_enable |-> "enable USB"]

\* C27: the steps of a Sysfs Mount or Unmount after the disable write start
\* with enable = 0; when one of them fails the call returns that step's error
\* in the same step, writing nothing more, so enable is left at 0
C27_SysfsNoRestore ==
    [][\A p \in Procs :
          (inv[p].pc \in DOMAIN SysfsStepError /\ inv'[p] # inv[p])
          => /\ Content(sysfsEnable) = <<"0">>
             /\ inv'[p].err # "" =>
                   /\ inv'[p].pc = "done"
                   /\ inv'[p].err = SysfsStepError[inv[p].pc]
                   /\ fs' = fs
                   /\ TrimSpace(fs'[sysfsEnable]) = <<"0">>
             /\ (inv'[p].err = "" /\ fs'[sysfsEnable] # fs[sysfsEnable])
                   => inv[p].pc \in {"sm_enable", "su_enable"}]_vars

\* C27 witness: a Sysfs Mount returned the error of its function-list write
\* with the image path written and enable left at 0
C27_Witness ==
    \E p \in Procs :
        /\ Done(p, "mount", "sysfs") /\ L(p).err = "set mass_storage function"
        /\ Content(sysfsEnable) = <<"0">> /\ Content(sysfsFile) = <<"a">>

\* the error a soft-connect UDC Mount returns when the write at a pc fails
SoftStepError == [sc_clear |-> "clear lun file", sc_path |-> "mount image"]

\* a soft-connect UDC Mount has returned
SoftMountDone(p) == Done(p, "mount", "udc") /\ focus \in SoftVersions

\* C28: in both soft-connect versions the result of Mount is the result of
\* LUN discovery, the clear, the path write and the verification: the
\* disconnection and reconnection steps never end the call with an error of
\* their own and never change the error, whatever softConnect returned, and
\* each of the other steps ends with its own error or none
C28_SoftConnectNeverDecides ==
    [][\A p \in Procs :
          /\ (inv[p].pc = "sc_disconnect" /\ inv'[p] # inv[p])
                => inv'[p].pc = "sc_clear" /\ inv'[p].err = ""
          /\ (inv[p].pc = "sc_reconnect" /\ inv'[p] # inv[p])
                => inv'[p].pc = "done" /\ inv'[p].err = inv[p].err
          /\ (inv[p].pc = "sc_find" /\ inv'[p] # inv[p])
                => inv'[p].err = (IF FirstLunCtrl(1) = "none" THEN "find lun file" ELSE "")
          /\ (inv[p].pc \in DOMAIN SoftStepError /\ inv'[p] # inv[p])
                => /\ inv'[p].err \in {"", SoftStepError[inv[p].pc]}
                   /\ inv'[p].err = "" <=> inv'[p].pc \in {"sc_path", "sc_verify"}
          /\ (inv[p].pc = "sc_verify" /\ inv'[p] # inv[p])
                => /\ inv'[p].err \in {"", "verify mount"}
                   /\ inv'[p].err = ""
                         => Content(UdcLunFile(inv[p].tgt)) = inv[p].path
                   /\ Content(UdcLunFile(inv[p].tgt)) # inv[p].path
                         => inv'[p].err = "verify mount"]_vars

\* C28 witness: a Mount returned success although the controller has no
\* soft_connect attribute for the disconnection or the reconnection
C28_Witness ==
    \E p \in Procs :
        /\ SoftMountDone(p) /\ L(p).err = "" /\ L(p).path = <<"a">>
        /\ L(p).soft = <<<<"none", "soft_connect not found">>,
                         <<"none", "soft_connect not found">>>>
        /\ Content(UdcLunFile(L(p).tgt)) = <<"a">>

\* C29: in the version that reconnects through setUSBActive, a Mount that
\* has attempted the disconnection returns only from the reconnection step,
\* which calls setUSBActive(true): every finished Mount that attempted one
\* has attempted the other, whatever step failed
C29_ReconnectOnEveryExit ==
    [][\A p \in Procs :
          focus = "udc/setUSBActive" =>
             /\ (inv'[p].pc = "done" /\ inv[p].pc # "done" /\ Len(inv'[p].soft) > 0)
                   => /\ inv[p].pc = "sc_reconnect"
                      /\ Len(inv'[p].soft) = 2
                      /\ \E r \in softConnect(TRUE) :
                            fs' = r.fs /\ inv'[p].soft[2] = <<r.ctrl, r.res>>
             /\ (inv[p].pc \in {"sc_clear", "sc_path", "sc_verify"} /\ inv'[p] # inv[p])
                   => Len(inv[p].soft) = 1 /\ inv'[p].pc # "done"]_vars

\* C29 witness: the clear of the LUN file failed and Mount returned that
\* error after writing connect to soft_connect
C29_Witness ==
    \E p \in Procs :
        /\ focus = "udc/setUSBActive" /\ SoftMountDone(p) /\ L(p).err = "clear lun file"
        /\ Len(L(p).soft) = 2 /\ L(p).soft[2][2] = "ok"
        /\ Content(SoftConnectFile(L(p).soft[2][1])) = <<"connect">>

\* C30 as stated: every soft_connect attribute a Mount writes belongs to the
\* controller whose LUN file the Mount writes
C30_SoftConnectOfLunController ==
    \A p \in Procs :
        (focus \in SoftVersions /\ L(p).op = "mount" /\ L(p).be = "udc")
        => \A i \in 1..Len(L(p).soft) :
              L(p).soft[i][2] = "ok" => L(p).soft[i][1] = L(p).tgt

\* C31 as stated: when the gadget resolution of the earlier version finds no
\* bound gadget and some controller accepts a binding write, it returns g1
\* bound to a controller, also when a g1 directory already existed unbound
C31_SynthesisedGadgetBound ==
    \A p \in Procs :
        (Done(p, "find", "configfs") /\ L(p).err = "" /\ L(p).udc0 = <<>>
           /\ L(p).accept # {})
        => L(p).tgt = "g1" /\ Content(UDCFile("g1")) # <<>>

\* the entries of a mount table whose type field is fsType
OfType(table, fsType) == {i \in 1..Len(table) : table[i].type = fsType}

\* C32 as stated: findMountPoint(fsType) returns the mount point of the first
\* entry whose type field is fsType, whatever its device field; only when no
\* entry has that type does the configfs fallback apply (/sys/kernel/config,
\* then /config, else nothing)
C32_FirstEntryOfType ==
    \A p \in Procs :
        (L(p).op = "findMountPoint" /\ L(p).pc = "done")
        => LET table == L(p).mtab.table
               typed == OfType(table, L(p).mtab.fsType)
           IN IF typed # {}
              THEN L(p).tgt = table[CHOOSE i \in typed : \A j \in typed : i <= j].mp
              ELSE L(p).tgt =
                     (IF L(p).mtab.fsType = "configfs" /\ <<"/sys/kernel/config">> \in dirs
                      THEN "/sys/kernel/config"
                      ELSE IF L(p).mtab.fsType = "configfs" /\ <<"/config">> \in dirs
                      THEN "/config" ELSE "")

\* the file the validated path names
RealImage(p) == Resolve(Abs(L(p).path), L(p).vs.sl, MaxHops)

\* C33 as stated: validateImage rejects every path that lies in an allowed
\* directory but names, once its symbolic links are followed, a file under a
\* deny-listed directory, whether the link is the last component or a directory
\* on the way
C33_LinkIntoDeniedRejected ==
    \A p \in Procs :
        (/\ L(p).op = "validate" /\ L(p).pc = "done" /\ focus = "image/links"
         /\ ~UnderDenied(Abs(L(p).path))
         /\ RealImage(p) # Loop /\ UnderDenied(RealImage(p)))
        => L(p).err # ""

\* C34 as stated: validateImage returns on every filesystem, symbolic-link
\* cycles included: the recursion that follows the links never goes on until
\* the stack is exhausted
C34_ValidateImageReturns == \A p \in Procs : L(p).pc # "overflow"

\* C35 as stated: two ConfigFS invocations run at once on g1, bound to x at the
\* start; once both have returned, the UDC attribute of g1 holds x
C35_BindingKeptByPair ==
    (focus = "configfs/pair" /\ \A p \in Pair : L(p).pc = "done")
    => Content(UDCFile("g1")) = <<"x">>

\* C36 as stated: with two ConfigFS Mounts running at once on g1, no write to
\* lun.0/file, lun.0/ro or lun.0/cdrom is made while the UDC attribute of g1
\* is not empty
C36_PairWritesWhileDetached ==
    [][\A p \in Pair :
          (/\ focus = "configfs/pair" /\ \A q \in Pair : inv[q].op = "mount"
           /\ inv[p].pc \in {"cm_clear", "cm_cdrom", "cm_ro", "cm_path"} /\ inv'[p] # inv[p])
          => Content(UDCFile(inv[p].tgt)) = <<>>]_vars

\* C37 as stated: after a successful mount command, whichever backend it used,
\* a following unmount command given without -f calls Unmount of that same
\* backend, and when it returns that backend's LUN file is empty
C37_UnmountFollowsMount ==
    [][\A p \in Procs :
          /\ (/\ chain.n = 1 /\ Content(LunFileOf(chain.be, chain.tgt)) # <<>>
              /\ Free(p) /\ inv'[p] # inv[p] /\ inv'[p].op = "unmount"
              /\ inv'[p].cli.src = "flags" /\ inv'[p].cli.force = "" /\ ~inv'[p].cli.dry)
             => inv'[p].called /\ inv'[p].be = chain.be
          /\ (/\ chain.n = 1 /\ inv[p].op = "unmount" /\ inv[p].cli.src = "flags"
              /\ inv[p].cli.force = "" /\ inv[p].called
              /\ inv[p].pc # "done" /\ inv'[p].pc = "done" /\ inv'[p].err = "")
             => /\ inv[p].be = chain.be
                /\ TrimSpace(fs'[LunFileOf(chain.be, chain.tgt)]) = <<>>]_vars

\* C38: Status() of every backend only reads: the step in which it runs
\* changes no file and creates no directory or link, and its result is
\* determined by the kernel state it leaves unchanged, so that a second call
\* with no change in between returns the same result
C38_StatusPureRead ==
    [][\A p \in Procs :
          inv'[p].op = "status"
          => /\ fs' = fs /\ dirs' = dirs
             /\ ~inv'[p].faults
                  => /\ inv'[p].status = Status(inv'[p].be, {})
                     /\ inv'[p].err = (IF StatusErr(inv'[p].be, {}) THEN "status" ELSE "")]_vars

\* C38 witness: Status() of Sysfs has reported a mounted image on a kernel
\* whose file attribute holds it
C38_Witness ==
    \E p \in Procs :
        /\ Done(p, "status", "sysfs") /\ ~L(p).faults /\ L(p).status.Mounted
        /\ L(p).status.File = <<"a">> /\ Content(sysfsFile) = <<"a">>

\* C39: a mount command that fails before backend.Mount is called (missing
\* file argument, config load error, conflicting flags, invalid image, no
\* backend selected) changes no kernel file and no directory, and a mount
\* command changes one only after the selector returned a backend
C39_EarlyFailureWritesNothing ==
    [][\A p \in Procs :
          /\ (inv'[p].op = "mount" /\ inv'[p] # inv[p] /\ ~inv'[p].called
                /\ inv'[p].err # "")
             => inv'[p].pc = "done" /\ fs' = fs /\ dirs' = dirs
          /\ (inv'[p].op = "mount" /\ (fs' # fs \/ dirs' # dirs))
             => /\ inv[p].op = "mount" /\ inv[p].called
                /\ inv[p].sel.reached /\ inv[p].sel.err = ""]_vars

\* C39 witness: a mount command has returned "invalid image file" on a kernel
\* where ConfigFS is supported and g1 is bound; Mount was not called
C39_Witness ==
    \E p \in Procs :
        /\ L(p).op = "mount" /\ L(p).pc = "done" /\ L(p).err = "invalid image file"
        /\ ~L(p).called /\ ~L(p).sel.reached
        /\ ConfigFSSupported /\ Content(UDCFile("g1")) = <<"x">>

\* the steps of a ConfigFS Mount before the restoration is registered, and the
\* errors they return
EarlyMountPcs == {"cm_find", "cm_getudc", "cm_disable"}

EarlyMountErrors == {"find gadget", "find config", "get UDC", "disable UDC"}

\* C40: a ConfigFS Mount that fails in gadget resolution, config resolution,
\* the read of the UDC binding or the disable write returns from one of those
\* steps, in a step that writes nothing; none of those steps writes a LUN
\* attribute or creates the function or its link, so lun.0/file, ro, cdrom and
\* the link are as before the call and no restoration write is made
C40_EarlyMountFailureWritesNothing ==
    [][\A p \in Procs :
          /\ (/\ inv[p].be = "configfs" /\ inv[p].op = "mount"
              /\ inv[p].pc \in EarlyMountPcs /\ inv'[p] # inv[p])
             => /\ dirs' = dirs
                /\ \A g \in GadgetSet : \A a \in {"file", "ro", "cdrom"} :
                        fs'[LunAttr(g, a)] = fs[LunAttr(g, a)]
                /\ inv'[p].pc = "done" => (inv'[p].err \in EarlyMountErrors /\ fs' = fs)
          /\ (/\ inv[p].be = "configfs" /\ inv[p].op = "mount" /\ inv[p].pc # "done"
              /\ inv'[p].pc = "done" /\ inv'[p].err \in EarlyMountErrors)
             => inv[p].pc \in EarlyMountPcs]_vars

\* C40 witness: a ConfigFS Mount has returned "disable UDC" with the binding
\* it had captured still in the UDC attribute
C40_Witness ==
    \E p \in Procs :
        /\ Done(p, "mount", "configfs") /\ L(p).err = "disable UDC"
        /\ L(p).udc = <<"x">> /\ Content(UDCFile(L(p).tgt)) = <<"x">>
        /\ ~L(p).rfail

====
